---- MODULE Spec2Model ----
(***************************************************************************)
(* Local platform-detection pipeline of shoptech_eval:                     *)
(*   fingerprinting.py    HTML fingerprint classifier                      *)
(*   dns_probe.py         Shopify CNAME prober                             *)
(*   local_detector.py    cascade controller detect_platform_local         *)
(*   local_detect.py      the older detector local_detect                  *)
(*   playwright_*.py      headless fallback and its concurrency limiter    *)
(*                                                                         *)
(* Six specifications share the module:                                     *)
(*   Spec      one call of detect_platform_local or of local_detect,       *)
(*             one step per probe, every network outcome nondeterministic  *)
(*   SpecFP    fingerprint_platform_from_html applied to bounded HTML      *)
(*   SpecSlot  threads going through playwright_slot                       *)
(*   SpecSlotFair  SpecSlot with fair threads, for progress properties     *)
(*   SpecUrl   _normalize_url and _host_from_url applied to bounded texts  *)
(*   SpecResume  one run of handover_bundle/scripts/evaluate_list.py       *)
(***************************************************************************)
EXTENDS Integers, Sequences, FiniteSets, TLC

VARIABLES
    prog,        \* which program part this behaviour runs
    pc,          \* position inside detect_platform_local / local_detect
    cfg,         \* the call's arguments (url, mode, flags)
    loc,         \* the call's local variables
    calls,       \* network operations issued so far, in order (DNS lookups, GETs, page.goto)
    debug,       \* the debug dictionary of LocalDetectResult
    result,      \* the returned model_result, NoResult before the return
    api_resp,    \* the answer to the endpoint-probe GET issued last, NoResp otherwise
    fp_in,       \* SpecFP: arguments of the last fingerprint call
    fp_out,      \* SpecFP: its FingerprintResult
    sem,         \* SpecSlot: value of _PW_SEMAPHORE
    env,         \* SpecSlot: SHOPTECH_PLAYWRIGHT_MAX_CONCURRENCY at import
    tpc,         \* SpecSlot: position of every worker thread
    tfn          \* SpecSlot: which function every worker thread is calling

vars == <<prog, pc, cfg, loc, calls, debug, result, api_resp, fp_in, fp_out, sem, env, tpc, tfn>>

(***************************************************************************)
(* Bounds of the model.                                                    *)
(***************************************************************************)
\* number of marker-bearing snippets in a fingerprinted page (SpecFP)
MaxMarkers == 3
\* number of marker-bearing snippets in a page fetched by the cascade
MaxPageMarkers == 1
\* number of worker threads in SpecSlot
NumThreads == 3
\* largest integer value of the concurrency variable in SpecSlot
MaxEnvValue == 2
\* number of pieces of a URL text given to _normalize_url (SpecUrl)
MaxUrlLen == 3
\* number of rows of the input list of the batch runner (SpecResume)
MaxRows == 3

NoResult == [none |-> TRUE]
NoResp == [kind |-> "none"]
\* Python's None where an int is expected (status codes)
None == -1

(***************************************************************************)
(* HTML.  A response body is a set of snippets as served (RawFragments);   *)
(* the fetchers lower-case it (Lower).  The empty set is the empty string. *)
(* MarkersOf(f) lists the substrings tested by the code that occur in the  *)
(* lower-cased snippet f ("re:..." stands for a regular expression that    *)
(* matches in f).                                                          *)
(***************************************************************************)
RawFragments ==
    {"cdn.shopify.com",
     "Shopify.theme",
     "wp-content/plugins/woocommerce",
     "woocommerce_params",
     "wc-cart-fragments",
     "woocommerce_items_in_cart",
     "add_to_cart_button",
     "\"@type\":\"Product\"",
     "/checkout",
     "Warenkorb",
     "/cart",
     "/bundles/storefront",
     "data-plugin-version=\"shopware6_1.5.0\"",
     "<meta name=\"generator\" content=\"Shopware\">",
     "/widgets/",
     "Shopware Agentur",
     "form_key",
     "wp-content/",
     "wp-includes/",
     "wp-json/",
     "captcha",
     "Attention Required! | Cloudflare",
     "id=\"__next\"",
     "brochure text",
     "<script> x12",
     "long text x5000"}

\* str.lower() on one snippet
Lower(raw) ==
    CASE raw = "Shopify.theme" -> "shopify.theme"
      [] raw = "\"@type\":\"Product\"" -> "\"@type\":\"product\""
      [] raw = "Warenkorb" -> "warenkorb"
      [] raw = "<meta name=\"generator\" content=\"Shopware\">" -> "<meta name=\"generator\" content=\"shopware\">"
      [] raw = "Attention Required! | Cloudflare" -> "attention required! | cloudflare"
      [] raw = "Shopware Agentur" -> "shopware agentur"
      [] OTHER -> raw

\* bytes.decode().lower() on a body
LowerBody(body) == {Lower(f) : f \in body}

MarkersOf(f) ==
    CASE f = "cdn.shopify.com" -> {"cdn.shopify.com"}
      [] f = "shopify.theme" -> {"shopify.theme"}
      [] f = "wp-content/plugins/woocommerce" -> {"wp-content/plugins/woocommerce", "wp-content/"}
      [] f = "woocommerce_params" -> {"woocommerce_params"}
      [] f = "wc-cart-fragments" -> {"wc-cart-fragments", "re:cart_words"}
      [] f = "woocommerce_items_in_cart" -> {"woocommerce_items_in_cart"}
      [] f = "add_to_cart_button" -> {"add_to_cart_button"}
      [] f = "\"@type\":\"product\"" -> {"\"@type\":\"product\""}
      [] f = "/checkout" -> {"/checkout", "checkout", "re:cart_words"}
      [] f = "warenkorb" -> {"warenkorb", "re:cart_words"}
      [] f = "/cart" -> {"/cart", "re:cart_words"}
      [] f = "/bundles/storefront" -> {"/bundles/storefront"}
      [] f = "data-plugin-version=\"shopware6_1.5.0\"" -> {"data-plugin-version=\"shopware", "shopware"}
      [] f = "<meta name=\"generator\" content=\"shopware\">" -> {"shopware", "re:meta_generator_shopware"}
      [] f = "/widgets/" -> {"/widgets/"}
      [] f = "shopware agentur" -> {"shopware"}
      [] f = "form_key" -> {"form_key"}
      [] f = "wp-content/" -> {"wp-content/"}
      [] f = "wp-includes/" -> {"wp-includes/"}
      [] f = "wp-json/" -> {"wp-json/"}
      [] f = "captcha" -> {"captcha"}
      [] f = "attention required! | cloudflare" -> {"cloudflare", "attention required"}
      [] f = "id=\"__next\"" -> {"id=\"__next\""}
      [] OTHER -> {}

\* `s in html`
Has(html, s) == \E f \in html : s \in MarkersOf(f)

\* a scan that looks for the first marker of a tuple only
HitsFirstOnly(html, seq) == SelectSeq(SubSeq(seq, 1, 1), LAMBDA s : Has(html, s))

\* the markers of the tuple `seq` that occur in html, in the tuple's order
Hits(html, seq) == SelectSeq(seq, LAMBDA s : Has(html, s))

\* [f"{family}:{s}" for s in hits]
Tagged(family, hits) == [i \in 1..Len(hits) |-> <<family, hits[i]>>]

\* any(s.startswith(family + ":") for s in signals)
AnyStartsWith(signals, family) == \E i \in 1..Len(signals) : signals[i][1] = family

\* mode = (shop_presence_mode or "installed").strip().lower(), defaulting to installed
ModeInputs == {"installed", "functional", " Functional", ""}

NormalizeMode(m) ==
    LET low == CASE m = " Functional" -> "functional"
                 [] m = "" -> "installed"
                 [] OTHER -> m
    IN  IF low \in {"installed", "functional"} THEN low ELSE "installed"

StrongMarkers == <<"?add-to-cart=", "add_to_cart_button", "data-product_id">>
WeakMarkers == <<"/cart", "/checkout", "warenkorb", "kasse", "checkout", "woocommerce-cart",
                 "woocommerce-checkout", "wc-cart-fragments">>
ShopifyMarkers == <<"cdn.shopify.com", "myshopify.com", "shopify-section", "shopify.theme",
                    "shopifyanalytics">>
WooMarkers == <<"wp-content/plugins/woocommerce", "woocommerce_params", "wc-cart-fragments",
                "woocommerce_items_in_cart">>
Shopware5Markers == <<"shopware.php", "/themes/frontend", "jquery.shopware", "/engine/shopware",
                      "shopware.apps">>
MagentoMarkers == <<"magento_", "form_key", "/static/frontend/", "/rest/v1/", "/rest/v1/">>
WordPressMarkers == <<"wp-content/", "wp-includes/", "wp-json/">>

FingerprintResult(platform, confidence, signals, hint, final_url, status, error) ==
    [platform |-> platform, confidence |-> confidence, signals |-> signals,
     shop_presence_hint |-> hint, final_url |-> final_url, status |-> status, error |-> error]

\* the shop-presence heuristic of fingerprint_platform_from_html
ShopHint(mode, strong_hits, weak_hits) ==
    IF mode = "functional"
    THEN IF Len(strong_hits) > 0 THEN "shop"
         ELSE IF Len(weak_hits) = 0 THEN "not_shop" ELSE "unclear"
    ELSE IF Len(strong_hits) > 0 \/ Len(weak_hits) >= 2 THEN "shop"
         ELSE IF Len(weak_hits) = 0 THEN "not_shop" ELSE "unclear"

\* the WooCommerce verdict without its shop-presence guard
WooConfirmedUnguarded(wc_hits, shop_hint) == Len(wc_hits) >= 1

\* the WooCommerce step: woocommerce only together with shop-presence evidence
WooConfirmed(wc_hits, shop_hint) == Len(wc_hits) >= 1 /\ shop_hint = "shop"

\* the generic WordPress verdict given to every page
WordPressConfirmedAlways(wp_hits) == Len(wp_hits) >= 0

\* the generic WordPress step: at least two of the three WordPress paths
WordPressConfirmed(wp_hits) == Len(wp_hits) >= 2

fingerprint_platform_from_html(html_lower, final_url, status, error, shop_presence_mode) ==
    LET mode == NormalizeMode(shop_presence_mode)
        html == LowerBody(html_lower)
        jsonld == Has(html, "\"@type\":\"product\"") \/ Has(html, "\"@type\": \"product\"")
        strong_hits == Hits(html, StrongMarkers) \o (IF jsonld THEN <<"jsonld_product">> ELSE <<>>)
        weak_hits == Hits(html, WeakMarkers)
        shop_hint == ShopHint(mode, strong_hits, weak_hits)
        s0 == IF jsonld THEN << <<"hint", "jsonld_product">> >> ELSE <<>>
        s1 == IF shop_hint = "shop" /\ Len(strong_hits) = 0 /\ Len(weak_hits) > 0
              THEN Append(s0, <<"hint", "shop_presence_weak_only">>) ELSE s0
        shopify_hits == Hits(html, ShopifyMarkers)
        s2 == s1 \o Tagged("shopify", shopify_hits)
        wc_hits == Hits(html, WooMarkers)
        s3 == s2 \o Tagged("woocommerce", wc_hits)
        s4 == IF Len(wc_hits) >= 1 /\ shop_hint # "shop"
              THEN Append(s3, <<"hint", "woocommerce_assets_without_shop_signals">>) ELSE s3
        sw5 == Hits(html, Shopware5Markers)
        s5 == IF Has(html, "/widgets/") THEN Append(s4, <<"shopware", "widgets_path">>) ELSE s4
        s6 == IF Has(html, "shopware") THEN Append(s5, <<"shopware", "shopware_word">>) ELSE s5
        mg == Hits(html, MagentoMarkers)
        wp_hits == Hits(html, WordPressMarkers)
        R(p, c, sig) == FingerprintResult(p, c, sig, shop_hint, final_url, status, error)
    IN  IF Len(shopify_hits) >= 1 THEN R("shopify", "high", s2)
        ELSE IF WooConfirmed(wc_hits, shop_hint) THEN R("woocommerce", "high", s3)
        ELSE IF Has(html, "/bundles/storefront")
             THEN R("shopware", "high", Append(s4, <<"shopware", "/bundles/storefront">>))
        ELSE IF Has(html, "data-plugin-version=\"shopware") \/ Has(html, "data-plugin-version='shopware")
             THEN R("shopware", "high", Append(s4, <<"shopware", "data-plugin-version">>))
        ELSE IF Has(html, "window.shopware")
             THEN R("shopware", "high", Append(s4, <<"shopware", "window.shopware">>))
        ELSE IF Has(html, "re:meta_generator_shopware")
             THEN R("shopware", "high", Append(s4, <<"shopware", "meta_generator">>))
        ELSE IF Len(sw5) >= 1 THEN R("shopware", "high", Append(s4, <<"shopware", sw5[1]>>))
        ELSE IF Len(mg) >= 1 THEN R("magento", "high", Append(s6, <<"magento", mg[1]>>))
        ELSE IF WordPressConfirmed(wp_hits)
             THEN R("other", "medium", Append(s6, <<"wordpress", "wp-content/wp-includes/wp-json">>))
        ELSE IF html # {}
             THEN R("inconclusive", "low",
                    IF Has(html, "re:cart_words")
                    THEN Append(s6, <<"hint", "cart/checkout_words_present">>) ELSE s6)
        ELSE R("inconclusive", "low", <<>>)

(***************************************************************************)
(* The network.  urllib.request.urlopen either returns a 2xx response,     *)
(* raises HTTPError for any other status (the error carries code, headers  *)
(* and body), or raises another exception (URLError, timeout, TLS).        *)
(***************************************************************************)
JsonBodies ==
    {"",
     "  ",
     "<html>not json</html>",
     "{\"items\": []}",
     "{\"token\": \"x\"}",
     "[]",
     "[\"items\"]",
     "null",
     "{\"products\": []}",
     "{\"errors\": [{\"detail\": \"Header sw-access-key is required.\"}]}",
     "{\"errors\": [{\"detail\": \"Resource not found\"}]}",
     "{\"errors\": \"sw-access-key\"}"}

\* body.strip() is non-empty
NonBlank(body) == body \notin {"", "  "}

\* json.loads(body): ok = it parses; type, keys of the parsed value
JsonLoads(body) ==
    CASE body = "{\"items\": []}" -> [ok |-> TRUE, type |-> "dict", keys |-> {"items"}]
      [] body = "{\"token\": \"x\"}" -> [ok |-> TRUE, type |-> "dict", keys |-> {"token"}]
      [] body = "[]" -> [ok |-> TRUE, type |-> "list", keys |-> {}]
      [] body = "[\"items\"]" -> [ok |-> TRUE, type |-> "list", keys |-> {}]
      [] body = "null" -> [ok |-> TRUE, type |-> "null", keys |-> {}]
      [] body = "{\"products\": []}" -> [ok |-> TRUE, type |-> "dict", keys |-> {"products"}]
      [] body = "{\"errors\": [{\"detail\": \"Header sw-access-key is required.\"}]}"
            -> [ok |-> TRUE, type |-> "dict", keys |-> {"errors"}]
      [] body = "{\"errors\": [{\"detail\": \"Resource not found\"}]}"
            -> [ok |-> TRUE, type |-> "dict", keys |-> {"errors"}]
      [] body = "{\"errors\": \"sw-access-key\"}" -> [ok |-> TRUE, type |-> "dict", keys |-> {"errors"}]
      [] OTHER -> [ok |-> FALSE, type |-> "none", keys |-> {}]

\* obj["errors"] is a list with a dict entry whose detail mentions sw-access-key
ErrorsMentionAccessKey(body) ==
    body = "{\"errors\": [{\"detail\": \"Header sw-access-key is required.\"}]}"

ContentTypes == {"application/json", "text/html", ""}

\* answers to an endpoint-probe GET
ApiResponses ==
    [kind : {"ok"}, status : {200}, ctype : {"application/json"}, body : JsonBodies]
    \cup [kind : {"ok"}, status : {204}, ctype : {"application/json"}, body : {"", "{\"items\": []}"}]
    \cup [kind : {"http_error"}, status : {401, 403, 404}, ctype : ContentTypes,
          body : {"", "{\"errors\": [{\"detail\": \"Header sw-access-key is required.\"}]}",
                  "{\"errors\": [{\"detail\": \"Resource not found\"}]}"}]
    \cup [kind : {"http_error"}, status : {403}, ctype : {"application/json"},
          body : {"{\"errors\": \"sw-access-key\"}", "{\"items\": []}"}]
    \cup [kind : {"error"}, status : {0}, ctype : {""}, body : {""}]

ProbeResult(hit, reason) == [hit |-> hit, reason |-> reason]

\* _probe_shopify_cart_js, given the answer to its GET
\* a /cart.js prober that accepts any parsed JSON of a 200 answer
probe_shopify_cart_js_any_json(host, resp) ==
    IF host # "" /\ resp.kind = "ok" /\ resp.status = 200 /\ JsonLoads(resp.body).ok
    THEN ProbeResult(TRUE, "cart_js_items")
    ELSE ProbeResult(FALSE, "no_hit")

probe_shopify_cart_js(host, resp) ==
    IF host = "" THEN ProbeResult(FALSE, "empty_host")
    ELSE IF resp.kind = "ok"
    THEN IF resp.status # 200 \/ ~NonBlank(resp.body) THEN ProbeResult(FALSE, "status")
         ELSE IF ~JsonLoads(resp.body).ok THEN ProbeResult(FALSE, "json_parse_failed")
         ELSE IF JsonLoads(resp.body).type = "dict" /\ "items" \in JsonLoads(resp.body).keys
              THEN ProbeResult(TRUE, "cart_js_items")
         ELSE ProbeResult(FALSE, "json_no_items")
    ELSE ProbeResult(FALSE, "exception")

\* _probe_shopware_store_api_context, given the answer to its GET
probe_shopware_store_api_context(host, resp) ==
    IF host = "" THEN ProbeResult(FALSE, "empty_host")
    ELSE IF resp.kind = "ok"
    THEN IF resp.status = 200 THEN ProbeResult(FALSE, "status_200_no_assert")
         ELSE ProbeResult(FALSE, "status")
    ELSE IF resp.kind = "http_error"
    THEN IF /\ resp.status \in {401, 403}
            /\ resp.ctype = "application/json"
            /\ NonBlank(resp.body)
            /\ JsonLoads(resp.body).ok
            /\ JsonLoads(resp.body).type = "dict"
            /\ ErrorsMentionAccessKey(resp.body)
         THEN ProbeResult(TRUE, "store_api_requires_sw_access_key")
         ELSE ProbeResult(FALSE, "http")
    ELSE ProbeResult(FALSE, "exception")

\* _probe_wc_store_api_products, given the answer to its GET
probe_wc_store_api_products(host, resp) ==
    IF host = "" THEN ProbeResult(FALSE, "empty_host")
    ELSE IF resp.kind = "ok"
    THEN IF resp.status # 200 \/ ~NonBlank(resp.body) THEN ProbeResult(FALSE, "status")
         ELSE IF ~JsonLoads(resp.body).ok THEN ProbeResult(FALSE, "json_parse_failed")
         ELSE IF JsonLoads(resp.body).type = "list" THEN ProbeResult(TRUE, "list_len")
         ELSE IF JsonLoads(resp.body).type = "dict"
                 /\ JsonLoads(resp.body).keys \cap {"products", "items"} # {}
              THEN ProbeResult(TRUE, "dict_products_like")
         ELSE ProbeResult(TRUE, "json_other_shape")
    ELSE ProbeResult(FALSE, "exception")

(***************************************************************************)
(* DNS.  nslookup prints lines; _SHOPIFY_CNAME_RE is searched in each.     *)
(***************************************************************************)
DnsLines ==
    {"example.test canonical name = checkout.shops.myshopify.com.",
     "example.test canonical name = my-store.myshopify.com.",
     "example.test canonical name = cdn.example.test.",
     "example.test canonical name = myshopify.com.evil.test.",
     "** server can't find example.test: NXDOMAIN",
     "Server: 127.0.0.53"}

\* m.group(0).rstrip(".").lower() of _SHOPIFY_CNAME_RE.search(line), "" without a match
ShopifyCnameMatch(line) ==
    CASE line = "example.test canonical name = checkout.shops.myshopify.com." -> "shops.myshopify.com"
      [] line = "example.test canonical name = my-store.myshopify.com." -> "myshopify.com"
      [] line = "example.test canonical name = myshopify.com.evil.test." -> "myshopify.com"
      [] OTHER -> ""

\* what running nslookup can do: raise (tool missing, timeout) or print lines
DnsOutcomes ==
    [raised : {TRUE}, lines : {<<>>}, returncode : {0}]
    \cup [raised : {FALSE}, lines : UNION {[1..n -> DnsLines] : n \in 0..1}, returncode : {0, 1}]

DnsProbeResult(host, cname, lines, error) ==
    [host |-> host, shopify_cname |-> cname, raw_lines |-> lines, error |-> error]

\* the first line the regular expression matches decides the hit
FirstMatch(lines) ==
    LET hitIdx == {i \in 1..Len(lines) : ShopifyCnameMatch(lines[i]) # ""}
    IN  IF hitIdx = {} THEN ""
        ELSE ShopifyCnameMatch(lines[CHOOSE i \in hitIdx : \A j \in hitIdx : i <= j])

probe_shopify_cname(host, out) ==
    IF host = "" THEN DnsProbeResult(host, "", <<>>, "empty_host")
    ELSE IF out.raised THEN DnsProbeResult(host, "", <<>>, "exception")
    ELSE LET hit == FirstMatch(out.lines)
         IN  DnsProbeResult(host, hit, out.lines,
                            IF out.returncode # 0 /\ hit = "" THEN "nslookup_exit" ELSE "")

(***************************************************************************)
(* URLs.                                                                   *)
(***************************************************************************)
(* A URL string is a sequence of pieces: white space, a scheme prefix, a host name, a   *)
(* path.  The empty sequence is the empty string.                                      *)
Whitespace == {" ", "\t"}
UrlPieces == {" ", "\t", "http://", "https://", "HTTPS://", "Http://", "example.test",
              "Example.Test", "/shop", "/"}
HostPieces == {"example.test", "Example.Test", "shop.example.test", "other.test"}

\* str.strip()
RECURSIVE Strip(_)
Strip(r) ==
    IF r = <<>> THEN r
    ELSE IF Head(r) \in Whitespace THEN Strip(Tail(r))
    ELSE IF r[Len(r)] \in Whitespace THEN Strip(SubSeq(r, 1, Len(r) - 1))
    ELSE r

\* str.lower() on one piece of a URL
LowerPiece(c) ==
    CASE c = "HTTPS://" -> "https://"
      [] c = "Http://" -> "http://"
      [] c = "Example.Test" -> "example.test"
      [] OTHER -> c

\* u.lower().startswith(("http://", "https://"))
HasScheme(u) == u # <<>> /\ LowerPiece(u[1]) \in {"http://", "https://"}

\* the inputs of the detectors: empty, blank, a bare domain
UrlInputs == {<<>>, <<" ">>, <<"example.test">>}

\* a normalisation that prefixes https:// to every non-empty text
normalize_url_always_prefix(url) ==
    IF Strip(url) = <<>> THEN <<>> ELSE <<"https://">> \o Strip(url)

\* _normalize_url: strip, then prefix https:// unless a scheme is present
normalize_url(url) ==
    IF Strip(url) = <<>> THEN <<>>
    ELSE IF HasScheme(Strip(url)) THEN Strip(url)
    ELSE <<"https://">> \o Strip(url)

\* _host_from_url: urlparse(_normalize_url(url)).hostname, lower-cased
host_from_url(url) ==
    IF Len(normalize_url(url)) >= 2 /\ normalize_url(url)[2] \in HostPieces
    THEN LowerPiece(normalize_url(url)[2]) ELSE ""

\* _origin_from_url: scheme://netloc
origin_from_url(url) ==
    IF host_from_url(url) = "" THEN <<>>
    ELSE <<LowerPiece(normalize_url(url)[1]), normalize_url(url)[2]>>

\* _subdomain_candidates: shop./store./webshop. on the host without its www.
subdomain_candidates(host) ==
    IF host = "" THEN <<>>
    ELSE <<"shop.example.test", "store.example.test", "webshop.example.test">>

(***************************************************************************)
(* Pages served to the plain fetchers and to the headless browser.         *)
(***************************************************************************)
HomeFragments ==
    {"cdn.shopify.com", "wp-content/plugins/woocommerce", "wp-includes/", "add_to_cart_button",
     "Attention Required! | Cloudflare", "brochure text", "<script> x12"}

\* a WordPress agency site that ships the WooCommerce assets but sells nothing
WooThemePage ==
    {"wp-content/plugins/woocommerce", "woocommerce_params", "wc-cart-fragments",
     "woocommerce_items_in_cart", "wp-includes/", "/widgets/", "Shopware Agentur"}

\* a WordPress site whose homepage mentions a captcha (comment form, block page)
BlockedWordPressPage == {"captcha", "wp-content/", "wp-includes/"}

HomeBodies ==
    {b \in SUBSET HomeFragments : Cardinality(b) <= MaxPageMarkers}
    \cup {WooThemePage, BlockedWordPressPage}

ProbeBodies ==
    {{}, {"brochure text"}, {"cdn.shopify.com"}, {"captcha"}, {"Warenkorb"},
     {"wp-content/plugins/woocommerce", "add_to_cart_button"}, {"wp-content/", "wp-includes/"},
     {"data-plugin-version=\"shopware6_1.5.0\""}}

\* response headers as served: a set of <<name, value>>
HeaderChoices ==
    {{}, {<<"Server", "nginx">>}, {<<"X-Shopware-Cache-Id", "1">>},
     {<<"Set-Cookie", "sw-context-token=abc">>}, {<<"Set-Cookie", "_shopify_y=1">>},
     {<<"X-Powered-By", "Shopify">>}}

\* {str(k).lower(): str(v).lower()}
LowerHeaders(hs) ==
    {<<CASE h[1] = "Server" -> "server"
          [] h[1] = "X-Shopware-Cache-Id" -> "x-shopware-cache-id"
          [] h[1] = "Set-Cookie" -> "set-cookie"
          [] h[1] = "X-Powered-By" -> "x-powered-by"
          [] OTHER -> h[1],
        IF h[2] = "Shopify" THEN "shopify" ELSE h[2]>> : h \in hs}

\* href values of the homepage's anchors, as served
HrefChoices == {<<>>, <<"/shop">>, <<"/about", "https://other.test/shop">>}

\* answers to the homepage GET
HomeResponses ==
    [kind : {"ok"}, status : {200}, body : HomeBodies, headers : {{}}, hrefs : HrefChoices]
    \cup [kind : {"ok"}, status : {200}, body : {{"brochure text"}, {"Attention Required! | Cloudflare"}},
          headers : HeaderChoices, hrefs : {<<>>}]
    \cup [kind : {"http_error"}, status : {403, 404, 503}, body : {{}}, headers : {{}}, hrefs : {<<>>}]
    \cup [kind : {"error"}, status : {0}, body : {{}}, headers : {{}}, hrefs : {<<>>}]

\* answers to every other page GET
PageResponses ==
    [kind : {"ok"}, status : {200}, body : ProbeBodies, headers : {{}}]
    \cup [kind : {"http_error"}, status : {403}, headers : {{}},
          body : {{}, {"captcha"}, {"cdn.shopify.com"}, {"wp-content/", "wp-includes/"}}]
    \cup [kind : {"error"}, status : {0}, body : {{}}, headers : {{}}]

\* local_detector._fetch_html: (final_url, status, html_lower, headers_lower, error);
\* every exception, HTTPError included, becomes (u, None, "", {}, error)
detector_fetch_html(url, resp) ==
    LET u == normalize_url(url)
    IN  IF u = <<>> THEN [final_url |-> <<>>, status |-> None, html |-> {}, headers |-> {},
                        error |-> <<"empty_url">>]
        ELSE IF resp.kind = "ok"
        THEN [final_url |-> u, status |-> resp.status, html |-> LowerBody(resp.body),
              headers |-> LowerHeaders(resp.headers), error |-> <<>>]
        ELSE IF resp.kind = "http_error"
        THEN [final_url |-> u, status |-> None, html |-> {}, headers |-> {},
              error |-> <<"HTTPError", resp.status>>]
        ELSE [final_url |-> u, status |-> None, html |-> {}, headers |-> {},
              error |-> <<"URLError">>]

\* fingerprinting._fetch_html: (final_url, html_lower, status, error);
\* an HTTPError keeps its code and body
fingerprint_fetch_html(url, resp) ==
    LET u == normalize_url(url)
    IN  IF u = <<>> THEN [final_url |-> <<>>, html |-> {}, status |-> None, error |-> <<"empty_url">>]
        ELSE IF resp.kind = "ok"
        THEN [final_url |-> u, html |-> LowerBody(resp.body), status |-> resp.status,
              error |-> <<>>]
        ELSE IF resp.kind = "http_error"
        THEN [final_url |-> u, html |-> LowerBody(resp.body), status |-> resp.status,
              error |-> <<"HTTPError", resp.status>>]
        ELSE [final_url |-> u, html |-> {}, status |-> None, error |-> <<"URLError">>]

\* fingerprint_platform: fetch, then classify; a failed fetch without a body is `error`
fingerprint_platform(url, resp, shop_presence_mode) ==
    LET f == fingerprint_fetch_html(url, resp)
    IN  IF f.error # <<>> /\ f.html = {}
        THEN FingerprintResult("error", "low", <<>>, "unclear", f.final_url, f.status, f.error)
        ELSE fingerprint_platform_from_html(f.html, f.final_url, f.status, f.error,
                                            shop_presence_mode)

ChallengeMarkers ==
    <<"cloudflare", "attention required", "captcha", "perimeterx", "datadome", "access denied">>

\* _looks_like_bot_challenge, and the same test inlined in detect_platform_local
looks_like_bot_challenge(html) == Len(Hits(html, ChallengeMarkers)) > 0

\* html.count("<script") and len(re.sub(r"<[^>]+>", " ", html)) per snippet
ScriptTags(f) == IF f = "<script> x12" THEN 12 ELSE 0
TextLen(f) == CASE f = "long text x5000" -> 5000 [] f = "<script> x12" -> 24 [] OTHER -> 20

RECURSIVE SumOver(_, _)
SumOver(S, kind) ==
    IF S = {} THEN 0
    ELSE LET f == CHOOSE x \in S : TRUE
         IN  (IF kind = "scripts" THEN ScriptTags(f) ELSE TextLen(f)) + SumOver(S \ {f}, kind)

\* the sticky heuristics of detect_platform_local
StickyStatuses == {403, 429, 503}
ScriptThreshold == 12
TextThreshold == 5000

sticky_reasons_of(base_err, base_status, base_html) ==
    (IF base_err # <<>> THEN <<"fetch_error">> ELSE <<>>)
    \o (IF base_status \in StickyStatuses THEN <<"http_status">> ELSE <<>>)
    \o (IF looks_like_bot_challenge(base_html) THEN <<"bot_protection_challenge">> ELSE <<>>)
    \o (IF base_html # {} /\ (Has(base_html, "id=\"__next\"") \/ Has(base_html, "__next_data__")
                              \/ Has(base_html, "data-reactroot"))
        THEN <<"js_framework_root">> ELSE <<>>)
    \o (IF base_html # {} /\ SumOver(base_html, "scripts") >= ScriptThreshold
                          /\ SumOver(base_html, "text") < TextThreshold
        THEN <<"js_heavy_minimal_html">> ELSE <<>>)

\* what a headless session can do
PlaywrightOutcomes ==
    [kind : {"missing_playwright", "launch_failed", "nav_exception"}, status : {0}, body : {{}}]
    \cup [kind : {"page"}, status : {200, 403}, body : ProbeBodies]

PlaywrightFetchResult(ok, status, html_lower, error, blocked) ==
    [ok |-> ok, status |-> status, html_lower |-> html_lower, error |-> error,
     blocked_reasons |-> blocked]

\* fetch_html_playwright for the outcomes that return; launch_failed does not return
fetch_html_playwright(out) ==
    IF out.kind = "missing_playwright"
    THEN PlaywrightFetchResult(FALSE, None, {}, "missing_playwright", <<>>)
    ELSE IF out.kind = "nav_exception"
    THEN PlaywrightFetchResult(FALSE, None, {}, "exception", <<>>)
    ELSE LET html == LowerBody(out.body)
             blocked == (IF out.status \in StickyStatuses THEN <<"http_status">> ELSE <<>>)
                        \o (IF looks_like_bot_challenge(html)
                            THEN <<"bot_protection_challenge">> ELSE <<>>)
         IN  IF blocked # <<>> THEN PlaywrightFetchResult(FALSE, out.status, html, "blocked", blocked)
             ELSE IF html = {} THEN PlaywrightFetchResult(FALSE, out.status, {}, "empty_html", <<>>)
             ELSE PlaywrightFetchResult(TRUE, out.status, html, "", <<>>)

\* the outcomes in which fetch_html_playwright raises instead of returning:
\* sync_playwright().__enter__, chromium.launch, new_context and new_page run outside its try
playwright_raises(out) == out.kind = "launch_failed"

\* the outcomes in which page.goto(url) is called: the browser was started
playwright_navigates(out) == out.kind \in {"nav_exception", "page"}

(***************************************************************************)
(* schema.py: the JSON Schema of the output contract.                      *)
(***************************************************************************)
\* a schema with the six keys expected by tests/test_schema.py
OUTPUT_SCHEMA_six_keys ==
    [type |-> "object",
     additionalProperties |-> FALSE,
     properties |->
        [input_url |-> [type |-> "string"],
         final_platform |-> [type |-> "string",
                             enum |-> {"magento", "shopware", "woocommerce", "shopify", "other",
                                       "unknown"}],
         confidence |-> [type |-> "string", enum |-> {"low", "medium", "high"}],
         evidence_tier |-> [type |-> "string", enum |-> {"A", "B", "C"}],
         signals |-> [type |-> "array", maxItems |-> 8],
         reasoning |-> [type |-> "string", maxLength |-> 600]],
     required |-> <<"input_url", "final_platform", "confidence", "evidence_tier", "signals",
                    "reasoning">>]

OUTPUT_SCHEMA ==
    [type |-> "object",
     additionalProperties |-> FALSE,
     properties |->
        [input_url |-> [type |-> "string"],
         shop_presence |-> [type |-> "string", enum |-> {"shop", "not_shop", "unclear"}],
         final_platform |-> [type |-> "string",
                             enum |-> {"magento", "shopware", "woocommerce", "shopify", "other",
                                       "unknown"}],
         other_platform_label |-> [type |-> "string", maxLength |-> 80],
         confidence |-> [type |-> "string", enum |-> {"low", "medium", "high"}],
         evidence_tier |-> [type |-> "string", enum |-> {"A", "B", "C"}],
         signals |-> [type |-> "array", maxItems |-> 8],
         reasoning |-> [type |-> "string", maxLength |-> 600]],
     required |-> <<"input_url", "shop_presence", "final_platform", "other_platform_label",
                    "confidence", "evidence_tier", "signals", "reasoning">>]

(***************************************************************************)
(* detect_platform_local, one step per probe.                              *)
(***************************************************************************)
Min(a, b) == IF a <= b THEN a ELSE b

\* signals[:n]
\* signals without the cap
TakeAll(signals, n) == signals

Take(signals, n) == SubSeq(signals, 1, Min(n, Len(signals)))

SignalCap == 8

NamedPlatforms == {"woocommerce", "shopify", "shopware", "magento"}

ModelResult(input_url, platform, shop_presence, label, confidence, tier, signals, reasoning) ==
    [input_url |-> input_url, final_platform |-> platform, shop_presence |-> shop_presence,
     other_platform_label |-> label, confidence |-> confidence, evidence_tier |-> tier,
     signals |-> signals, reasoning |-> reasoning]

\* "A" if confidence in ("high", "medium") else "C"
TierOf(confidence) == IF confidence \in {"high", "medium"} THEN "A" ELSE "C"

\* the nested helper _as_model_result
as_model_result(input_url, fp_platform, signals, shop_presence, confidence, other_label) ==
    ModelResult(input_url, fp_platform, shop_presence, other_label, confidence,
                TierOf(confidence), Take(signals, SignalCap), "Local HTML fingerprinting.")

\* "shop" if mode == "installed" else (fp.shop_presence_hint or "unclear")
PresenceFor(mode, fp) == IF mode = "installed" THEN "shop" ELSE fp.shop_presence_hint

\* "shop" if mode == "installed" else "unclear"
PresenceInstalledOnly(mode) == IF mode = "installed" THEN "shop" ELSE "unclear"

\* the result built from a named-platform fingerprint of a plain fetch
named_result(input_url, mode, fp) ==
    as_model_result(input_url, fp.platform, fp.signals, PresenceFor(mode, fp), fp.confidence, "")

\* the result built from a named-platform fingerprint of a headless fetch
playwright_result(input_url, mode, fp) ==
    ModelResult(input_url, fp.platform, PresenceFor(mode, fp), "", fp.confidence,
                TierOf(fp.confidence), Take(fp.signals, SignalCap),
                "Local HTML fingerprinting (via Playwright fallback).")

\* the terminal result of step 6
\* a give-up result that keeps a medium confidence
unknown_result_medium(input_url) ==
    [input_url |-> input_url, final_platform |-> "unknown", shop_presence |-> "unclear",
     other_platform_label |-> "", confidence |-> "medium", evidence_tier |-> "A",
     signals |-> <<>>, reasoning |-> "Local detection inconclusive."]

unknown_result(input_url) ==
    ModelResult(input_url, "unknown", "unclear", "", "low", "C", <<>>,
                "Local detection inconclusive (JS-heavy site, blocked, or no clear markers).")

\* shop_presence of the tentative `other` candidate
tentative_presence(cautious_on_sticky, mode, is_sticky, fp0) ==
    IF cautious_on_sticky /\ mode = "functional" /\ is_sticky THEN "unclear"
    ELSE IF fp0.shop_presence_hint = "shop" THEN "shop" ELSE "not_shop"

\* hrefs whose lower-cased text contains one of the shop keys of _extract_shop_links
HrefHasShopKey(href) == href \in {"/shop", "https://other.test/shop"}

\* urllib.parse.urljoin(base_url, href): an absolute href replaces the base
urljoin(base_url, href) ==
    IF href = "https://other.test/shop" THEN <<"https://", "other.test", "/shop">>
    ELSE <<base_url[1], base_url[2], href>>

\* _extract_shop_links: matching hrefs, joined to the base URL, without duplicates
extract_shop_links(base_url, html, hrefs) ==
    IF html = {} THEN <<>>
    ELSE [k \in 1 .. Len(SelectSeq(hrefs, HrefHasShopKey))
          |-> urljoin(base_url, SelectSeq(hrefs, HrefHasShopKey)[k])]

\* local_detect._same_reg_domain: both hosts end in the same two labels
same_reg_domain(a_host, b_host) ==
    LET labels(h) == CASE h = "example.test" -> <<"example", "test">>
                       [] h = "shop.example.test" -> <<"shop", "example", "test">>
                       [] h = "other.test" -> <<"other", "test">>
                       [] OTHER -> <<>>
        registered_domain(h) == IF Len(labels(h)) <= 2 THEN labels(h)
                                ELSE SubSeq(labels(h), Len(labels(h)) - 1, Len(labels(h)))
    IN  registered_domain(a_host) # <<>> /\ registered_domain(a_host) = registered_domain(b_host)

PathProbes == <<"/shop", "/shop/", "/store", "/store/", "/webshop", "/webshop/">>

Flags == [shop_presence_mode : {"installed", "functional"}, enable_wc_store_api_probe : BOOLEAN,
          cautious_on_sticky : BOOLEAN, playwright_fallback_on_blocked : BOOLEAN,
          playwright_fallback_on_unknown : BOOLEAN, url : UrlInputs]

NoFp == [platform |-> "none"]

\* the fields of a fingerprint the cascade keeps
FpView(fp) == [platform |-> fp.platform, confidence |-> fp.confidence, signals |-> fp.signals,
               shop_presence_hint |-> fp.shop_presence_hint]

\* pw_calls counts the invocations of fetch_html_playwright in this call
InitLoc ==
    [input_url |-> <<>>, host |-> "", mode |-> "installed", dns_cname |-> "", dns_lines |-> <<>>,
     cart_hit |-> FALSE, store_hit |-> FALSE,
     base_final |-> <<>>, base_status |-> None, base_html |-> {}, base_hrefs |-> <<>>,
     base_headers |-> {}, base_err |-> <<>>, sticky_reasons |-> <<>>,
     fp0 |-> NoFp, tentative_other |-> NoResult, links |-> <<>>, i |-> 0, exc |-> "",
     pw_calls |-> 0]

InitDebug == [keys |-> {}, is_sticky |-> FALSE, reasons |-> <<>>, attempts |-> 0,
              probe_other |-> FALSE, probe_named |-> FALSE]

OtherIdle == UNCHANGED <<fp_in, fp_out, sem, env, tpc, tfn>>

Return(mr) == result' = mr /\ pc' = "done"

\* lines 277-288: normalise the arguments, create the debug record
Enter ==
    /\ prog = "detect_platform_local" /\ pc = "start"
    /\ loc' = [loc EXCEPT !.mode = NormalizeMode(cfg.shop_presence_mode),
                          !.input_url = normalize_url(cfg.url),
                          !.host = host_from_url(normalize_url(cfg.url))]
    /\ debug' = [InitDebug EXCEPT !.keys = {"input_url", "host", "attempts", "sticky"}]
    /\ pc' = "dns"
    /\ UNCHANGED <<prog, cfg, calls, result, api_resp>> /\ OtherIdle

\* a DNS step that records the CNAME but does not return on it
DnsStepFallThrough ==
    /\ prog = "detect_platform_local" /\ pc = "dns"
    /\ \E out \in DnsOutcomes :
         /\ calls' = IF loc.host = "" THEN calls ELSE Append(calls, "dns")
         /\ loc' = [loc EXCEPT !.dns_cname = probe_shopify_cname(loc.host, out).shopify_cname]
    /\ pc' = "cart_js"
    /\ UNCHANGED <<prog, cfg, debug, result, api_resp, fp_in, fp_out, sem, env, tpc, tfn>>

\* step 1: DNS Shopify hint; dns_lines: the raw_lines of a hit (those of a miss are
\* never read again)
DnsStep ==
    /\ prog = "detect_platform_local" /\ pc = "dns"
    /\ IF loc.host = ""
       THEN /\ pc' = "cart_js"
            /\ UNCHANGED <<loc, calls, debug, result>>
       ELSE \E out \in DnsOutcomes :
              LET dns_hit == probe_shopify_cname(loc.host, out)
              IN  /\ calls' = Append(calls, "dns")
                  /\ loc' = [loc EXCEPT !.dns_cname = dns_hit.shopify_cname,
                                        !.dns_lines = IF dns_hit.shopify_cname # ""
                                                      THEN dns_hit.raw_lines ELSE <<>>]
                  /\ IF dns_hit.shopify_cname # ""
                     THEN /\ debug' = [debug EXCEPT !.keys = @ \cup {"dns_shopify"}]
                          /\ Return(ModelResult(loc.input_url, "shopify",
                                                PresenceInstalledOnly(loc.mode), "", "high", "A",
                                                << <<"dns", dns_hit.shopify_cname>> >>,
                                                "DNS CNAME indicates Shopify (myshopify)."))
                     ELSE /\ pc' = "cart_js"
                          /\ UNCHANGED <<debug, result>>
    /\ UNCHANGED <<prog, cfg, api_resp>> /\ OtherIdle

\* step 1b: Shopify /cart.js
CartJsStep ==
    /\ prog = "detect_platform_local" /\ pc = "cart_js"
    /\ IF loc.host = ""
       THEN /\ pc' = "store_api"
            /\ UNCHANGED <<loc, calls, debug, result, api_resp>>
       ELSE \E resp \in ApiResponses :
              LET r == probe_shopify_cart_js(loc.host, resp)
              IN  /\ calls' = Append(calls, "cart_js")
                  /\ api_resp' = resp
                  /\ loc' = [loc EXCEPT !.cart_hit = r.hit]
                  /\ debug' = [debug EXCEPT !.keys = @ \cup {"shopify_cart_js_probe"}]
                  /\ IF r.hit
                     THEN Return(ModelResult(loc.input_url, "shopify", "shop", "", "high", "A",
                                             << <<"shopify", "/cart.js">> >>,
                                             "Shopify cart endpoint indicates a functional Shopify shop."))
                     ELSE pc' = "store_api" /\ UNCHANGED result
    /\ UNCHANGED <<prog, cfg>> /\ OtherIdle

\* step 1c: Shopware Store API
StoreApiStep ==
    /\ prog = "detect_platform_local" /\ pc = "store_api"
    /\ IF loc.host = ""
       THEN /\ pc' = "base_fetch"
            /\ UNCHANGED <<loc, calls, debug, result, api_resp>>
       ELSE \E resp \in ApiResponses :
              LET r == probe_shopware_store_api_context(loc.host, resp)
              IN  /\ calls' = Append(calls, "store_api")
                  /\ api_resp' = resp
                  /\ loc' = [loc EXCEPT !.store_hit = r.hit]
                  /\ debug' = [debug EXCEPT !.keys = @ \cup {"shopware_store_api_probe"}]
                  /\ IF r.hit
                     THEN Return(ModelResult(loc.input_url, "shopware",
                                             PresenceInstalledOnly(loc.mode), "", "high", "A",
                                             << <<"shopware", "/store-api/context">>,
                                                <<"shopware", "store_api", r.reason>> >>,
                                             "Shopware Store API endpoint indicates Shopware."))
                     ELSE pc' = "base_fetch" /\ UNCHANGED result
    /\ UNCHANGED <<prog, cfg>> /\ OtherIdle

\* step 2: homepage GET and the sticky heuristics (lines 343-365)
BaseFetchStep ==
    /\ prog = "detect_platform_local" /\ pc = "base_fetch"
    /\ \E resp \in (IF loc.input_url = <<>> THEN {NoResp} ELSE HomeResponses) :
         LET f == detector_fetch_html(loc.input_url, resp)
             sticky == sticky_reasons_of(f.error, f.status, f.html)
         IN  /\ calls' = IF loc.input_url = <<>> THEN calls ELSE Append(calls, "homepage_get")
             /\ loc' = [loc EXCEPT !.base_final = f.final_url, !.base_status = f.status,
                                   !.base_html = f.html, !.base_headers = f.headers,
                                   !.base_err = f.error, !.sticky_reasons = sticky,
                                   !.base_hrefs = IF resp.kind = "ok" THEN resp.hrefs ELSE <<>>]
             /\ debug' = [debug EXCEPT !.keys = @ \cup {"base_fetch"},
                                       !.is_sticky = sticky # <<>>,
                                       !.reasons = sticky]
    /\ pc' = "pw_blocked"
    /\ api_resp' = NoResp
    /\ UNCHANGED <<prog, cfg, result>> /\ OtherIdle

\* an attempt appended to debug["attempts"]
Attempted(d) == [d EXCEPT !.attempts = @ + 1]

\* the attempt of a link, path or subdomain probe; probe_other: one of them recorded
\* `other`, probe_named: one of them recorded a named platform
AttemptedProbe(d, platform) ==
    [d EXCEPT !.attempts = @ + 1, !.probe_other = @ \/ platform = "other",
              !.probe_named = @ \/ platform \in NamedPlatforms]

\* the headless outcomes possible for a URL: an empty URL cannot be navigated to
PlaywrightOutcomesFor(url) ==
    IF url = <<>> THEN {o \in PlaywrightOutcomes : o.kind # "page"} ELSE PlaywrightOutcomes

\* lines 367-413: optional headless fallback when the plain fetch is blocked or empty
PwBlockedStep ==
    /\ prog = "detect_platform_local" /\ pc = "pw_blocked"
    /\ IF cfg.playwright_fallback_on_blocked /\ (loc.base_html = {} \/ loc.sticky_reasons # <<>>)
       THEN \E out \in PlaywrightOutcomesFor(loc.base_final) :
              /\ calls' = IF playwright_navigates(out) THEN Append(calls, "playwright") ELSE calls
              /\ IF playwright_raises(out)
                 THEN /\ pc' = "raised"
                      /\ loc' = [loc EXCEPT !.exc = "playwright_launch", !.pw_calls = @ + 1]
                      /\ UNCHANGED <<debug, result>>
                 ELSE LET pw == fetch_html_playwright(out)
                          fp_pw == fingerprint_platform_from_html(pw.html_lower, loc.base_final,
                                                                  pw.status, <<>>, loc.mode)
                          d1 == [debug EXCEPT !.keys = @ \cup {"playwright_fetch"}]
                      IN  IF pw.ok /\ pw.html_lower # {}
                          THEN /\ debug' = Attempted(d1)
                               /\ IF fp_pw.platform \in NamedPlatforms
                                  THEN Return(playwright_result(loc.input_url, loc.mode, fp_pw))
                                  ELSE pc' = "headers" /\ UNCHANGED result
                               /\ loc' = [loc EXCEPT !.pw_calls = @ + 1]
                          ELSE /\ debug' = d1
                               /\ pc' = "headers"
                               /\ loc' = [loc EXCEPT !.pw_calls = @ + 1]
                               /\ UNCHANGED result
       ELSE /\ pc' = "headers"
            /\ UNCHANGED <<loc, calls, debug, result>>
    /\ UNCHANGED <<prog, cfg, api_resp>> /\ OtherIdle

\* base_headers.get(name, "")
HeaderValues(headers, name) == {h[2] : h \in {x \in headers : x[1] = name}}

\* needle in value, for the header values of HeaderChoices
HeaderValueHas(value, needle) ==
    \/ value = "sw-context-token=abc" /\ needle = "sw-context-token"
    \/ value = "_shopify_y=1" /\ needle \in {"_shopify", "shopify"}
    \/ value = "shopify" /\ needle = "shopify"

HeaderHas(headers, names, needle) ==
    \E n \in names : \E v \in HeaderValues(headers, n) : HeaderValueHas(v, needle)

\* the Shopware header/cookie hint (lines 415-426)
shopware_header_hint(headers) ==
    \/ \E h \in headers : h[1] = "x-shopware-cache-id"
    \/ HeaderHas(headers, {"server", "x-powered-by", "x-generator", "set-cookie"}, "shopware")
    \/ HeaderHas(headers, {"set-cookie"}, "sw-context-token")
    \/ HeaderHas(headers, {"set-cookie"}, "sw-cache-hash")

\* the Shopify header/cookie hint (line 441)
shopify_header_hint(headers) ==
    \/ HeaderHas(headers, {"set-cookie"}, "_shopify")
    \/ HeaderHas(headers, {"server", "x-powered-by"}, "shopify")

\* lines 415-452: header and cookie hints of the homepage response
HeadersStep ==
    /\ prog = "detect_platform_local" /\ pc = "headers"
    /\ IF shopware_header_hint(loc.base_headers)
       THEN Return(ModelResult(loc.input_url, "shopware", PresenceInstalledOnly(loc.mode), "",
                               "high", "A",
                               << <<"header/cookie", "shopware_hint">> >>
                               \o (IF HeaderHas(loc.base_headers, {"set-cookie"}, "sw-context-token")
                                      \/ HeaderHas(loc.base_headers, {"set-cookie"}, "sw-cache-hash")
                                   THEN << <<"cookie", "sw_context_or_cache_hash">> >> ELSE <<>>),
                               "HTTP headers/cookies indicate Shopware."))
       ELSE IF shopify_header_hint(loc.base_headers)
       THEN Return(ModelResult(loc.input_url, "shopify", "shop", "", "high", "A",
                               << <<"header/cookie", "shopify_hint">> >>,
                               "HTTP headers/cookies indicate Shopify."))
       ELSE pc' = "fp0" /\ UNCHANGED result
    /\ UNCHANGED <<prog, cfg, loc, calls, debug, api_resp>> /\ OtherIdle

\* lines 454-465: the homepage fingerprint, from the HTML at hand or from a repeated GET
homepage_fingerprint(resp) ==
    IF loc.base_html # {}
    THEN fingerprint_platform_from_html(loc.base_html, loc.base_final, loc.base_status,
                                        loc.base_err, loc.mode)
    ELSE fingerprint_platform(loc.base_final, resp, loc.mode)

\* lines 506-520: the tentative `other` candidate, if any
tentative_other_of(fp0) ==
    IF fp0.platform = "other"
    THEN as_model_result(loc.input_url, "other", fp0.signals,
                         tentative_presence(cfg.cautious_on_sticky, loc.mode, debug.is_sticky, fp0),
                         fp0.confidence,
                         IF AnyStartsWith(fp0.signals, "wordpress") THEN "wordpress" ELSE "")
    ELSE NoResult

\* lines 466-520 for the fingerprint fp0
Fp0Decide(resp, fp0) ==
    /\ calls' = IF resp = NoResp THEN calls ELSE Append(calls, "homepage_get")
    /\ debug' = Attempted(debug)
    /\ loc' = [loc EXCEPT !.fp0 = FpView(fp0), !.tentative_other = tentative_other_of(fp0)]
    /\ IF fp0.platform \in NamedPlatforms
       THEN Return(named_result(loc.input_url, loc.mode, fp0))
       ELSE pc' = "wc_probe" /\ UNCHANGED result

\* lines 454-520: fingerprint the homepage, hold a tentative `other`
Fp0Step ==
    /\ prog = "detect_platform_local" /\ pc = "fp0"
    /\ \E resp \in (IF loc.base_html # {} \/ loc.base_final = <<>> THEN {NoResp} ELSE PageResponses) :
         Fp0Decide(resp, homepage_fingerprint(resp))
    /\ UNCHANGED <<prog, cfg, api_resp>> /\ OtherIdle

\* step 3b: optional WooCommerce Store API probe (lines 522-537)
WcProbeStep ==
    /\ prog = "detect_platform_local" /\ pc = "wc_probe"
    /\ LET next == [loc EXCEPT !.links = extract_shop_links(loc.base_final, loc.base_html,
                                                           loc.base_hrefs),
                               !.i = 1]
       IN  IF /\ cfg.enable_wc_store_api_probe /\ loc.mode = "functional" /\ loc.host # ""
              /\ AnyStartsWith(loc.fp0.signals, "woocommerce")
           THEN \E resp \in ApiResponses :
                  LET r == probe_wc_store_api_products(loc.host, resp)
                  IN  /\ calls' = Append(calls, "wc_store_api")
                      /\ api_resp' = resp
                      /\ debug' = [debug EXCEPT !.keys = @ \cup {"wc_store_api_probe"}]
                      /\ IF r.hit
                         THEN /\ Return(as_model_result(loc.input_url, "woocommerce",
                                           Append(loc.fp0.signals,
                                                  <<"woocommerce", "store_api", r.reason>>),
                                           "shop", "medium", ""))
                              /\ UNCHANGED loc
                         ELSE pc' = "links" /\ loc' = next /\ UNCHANGED result
           ELSE /\ pc' = "links" /\ loc' = next
                /\ UNCHANGED <<calls, debug, result, api_resp>>
    /\ UNCHANGED <<prog, cfg>> /\ OtherIdle

\* a probing loop that records a named platform and goes on
ProbeByFingerprintGoesOn(url, call, nextpc) ==
    \E resp \in PageResponses :
      \E fp \in {fingerprint_platform(url, resp, loc.mode)} :
          /\ calls' = Append(calls, call)
          /\ debug' = AttemptedProbe(debug, fp.platform)
          /\ pc' = nextpc /\ loc' = [loc EXCEPT !.i = @ + 1] /\ UNCHANGED result

\* one iteration of a probing loop that classifies with fingerprint_platform
ProbeByFingerprint(url, call, nextpc) ==
    \E resp \in PageResponses :
      \E fp \in {fingerprint_platform(url, resp, loc.mode)} :
          /\ calls' = Append(calls, call)
          /\ debug' = AttemptedProbe(debug, fp.platform)
          /\ IF fp.platform \in NamedPlatforms
             THEN Return(named_result(loc.input_url, loc.mode, fp)) /\ UNCHANGED loc
             ELSE pc' = nextpc /\ loc' = [loc EXCEPT !.i = @ + 1] /\ UNCHANGED result

\* step 4: follow the shop links of the homepage
LinkStep ==
    /\ prog = "detect_platform_local" /\ pc = "links"
    /\ IF loc.i <= Len(loc.links)
       THEN ProbeByFingerprint(loc.links[loc.i], "link_get", "links")
       ELSE /\ pc' = "paths" /\ loc' = [loc EXCEPT !.i = 1]
            /\ UNCHANGED <<calls, debug, result>>
    /\ api_resp' = NoResp
    /\ UNCHANGED <<prog, cfg>> /\ OtherIdle

\* step 4b: common shop paths on the same origin, unless the homepage is sticky
PathStep ==
    /\ prog = "detect_platform_local" /\ pc = "paths"
    /\ IF /\ loc.sticky_reasons = <<>> /\ origin_from_url(loc.base_final) # <<>>
          /\ loc.i <= Len(PathProbes)
       THEN \E resp \in PageResponses :
              \E f \in {detector_fetch_html(<<"https://", "example.test", "/shop">>, resp)} :
              \E fp \in {fingerprint_platform_from_html(f.html, f.final_url, f.status, f.error,
                                                         loc.mode)} :
                  /\ calls' = Append(calls, "path_get")
                  /\ debug' = AttemptedProbe(debug, fp.platform)
                  /\ IF fp.platform \in NamedPlatforms
                     THEN Return(named_result(loc.input_url, loc.mode, fp)) /\ UNCHANGED loc
                     ELSE pc' = "paths" /\ loc' = [loc EXCEPT !.i = @ + 1] /\ UNCHANGED result
       ELSE /\ pc' = "subs" /\ loc' = [loc EXCEPT !.i = 1]
            /\ UNCHANGED <<calls, debug, result>>
    /\ UNCHANGED <<prog, cfg, api_resp>> /\ OtherIdle

\* step 5: common shop subdomains
SubStep ==
    /\ prog = "detect_platform_local" /\ pc = "subs"
    /\ IF loc.i <= Len(subdomain_candidates(loc.host))
       THEN ProbeByFingerprint(<<"https://", "shop.example.test", "/">>, "subdomain_get", "subs")
       ELSE /\ pc' = "tail" /\ UNCHANGED <<loc, calls, debug, result>>
    /\ UNCHANGED <<prog, cfg, api_resp>> /\ OtherIdle

\* a fallback on unknown that does not look for an earlier headless fetch
unknown_fallback_due_again(d) == cfg.playwright_fallback_on_unknown

\* lines 637-639: the fallback on unknown runs unless debug holds a playwright_fetch entry
unknown_fallback_due(d) ==
    cfg.playwright_fallback_on_unknown /\ "playwright_fetch" \notin d.keys

\* lines 632-694: tentative `other`, optional headless fallback, give up
TailStep ==
    /\ prog = "detect_platform_local" /\ pc = "tail"
    /\ IF loc.tentative_other # NoResult
       THEN Return(loc.tentative_other) /\ UNCHANGED <<loc, calls, debug>>
       ELSE IF unknown_fallback_due(debug)
       THEN \E out \in PlaywrightOutcomesFor(loc.base_final) :
              /\ calls' = IF playwright_navigates(out) THEN Append(calls, "playwright") ELSE calls
              /\ IF playwright_raises(out)
                 THEN /\ pc' = "raised"
                      /\ loc' = [loc EXCEPT !.exc = "playwright_launch", !.pw_calls = @ + 1]
                      /\ UNCHANGED <<debug, result>>
                 ELSE LET pw == fetch_html_playwright(out)
                          fp_pw == fingerprint_platform_from_html(pw.html_lower, loc.base_final,
                                                                  pw.status, <<>>, loc.mode)
                          d1 == [debug EXCEPT !.keys = @ \cup {"playwright_fetch"}]
                      IN  /\ debug' = IF pw.ok /\ pw.html_lower # {} THEN Attempted(d1) ELSE d1
                          /\ IF pw.ok /\ pw.html_lower # {} /\ fp_pw.platform \in NamedPlatforms
                             THEN Return(playwright_result(loc.input_url, loc.mode, fp_pw))
                             ELSE Return(unknown_result(loc.input_url))
                          /\ loc' = [loc EXCEPT !.pw_calls = @ + 1]
       ELSE Return(unknown_result(loc.input_url)) /\ UNCHANGED <<loc, calls, debug>>
    /\ UNCHANGED <<prog, cfg, api_resp>> /\ OtherIdle

DetectNext ==
    \/ Enter \/ DnsStep \/ CartJsStep \/ StoreApiStep \/ BaseFetchStep \/ PwBlockedStep
    \/ HeadersStep \/ Fp0Step \/ WcProbeStep \/ LinkStep \/ PathStep \/ SubStep \/ TailStep

(***************************************************************************)
(* local_detect, the older detector of local_detect.py.                    *)
(***************************************************************************)
LdConfigs == [url : UrlInputs, probe_shop_links : BOOLEAN, probe_shop_subdomains : BOOLEAN,
              enable_dns_shopify : BOOLEAN]

\* _detect_shopify_via_dns: the signals it can return (none without dnspython or a CNAME)
LdDnsSignals == {<<>>, << <<"dns", "shopify_cname">> >>}

\* the nested helper score(fp)
score(fp) ==
    (IF fp.platform \in {"shopify", "woocommerce", "shopware", "magento"} /\ fp.confidence = "high"
     THEN 100
     ELSE IF fp.platform = "other" /\ fp.confidence \in {"medium", "high"} THEN 60
     ELSE IF fp.platform = "inconclusive" THEN 10
     ELSE 0)
    + (IF fp.shop_presence_hint = "shop" THEN 10 ELSE 0)

\* max(candidates, key=score) keeps the first candidate of maximal score
better(best, fp) == IF score(fp) > score(best) THEN fp ELSE best

\* local_detect._fetch_html_and_headers: every exception yields an empty page
ld_fetch_html(url, resp) ==
    IF normalize_url(url) = <<>> THEN [final_url |-> <<>>, html |-> {}, hrefs |-> <<>>]
    ELSE IF resp.kind = "ok"
    THEN [final_url |-> normalize_url(url), html |-> LowerBody(resp.body), hrefs |-> resp.hrefs]
    ELSE [final_url |-> normalize_url(url), html |-> {}, hrefs |-> <<>>]

\* _probe_shop_subdomain_urls: shop. and store. on the registered domain
ld_subdomain_urls(host) ==
    IF host = "" THEN <<>>
    ELSE << <<"https://", "shop.example.test", "/">>, <<"https://", "store.example.test", "/">> >>

\* lines 207-245: platform, shop presence, confidence and evidence tier of the best candidate
ld_decide(input_url, dns_signals, best_fp, best_is_input) ==
    LET p0 == IF best_fp.platform \in {"magento", "shopware", "woocommerce", "shopify", "other",
                                       "unknown"}
              THEN best_fp.platform ELSE "unknown"
        other_label == IF p0 = "other" /\ AnyStartsWith(best_fp.signals, "wordpress")
                       THEN "wordpress" ELSE ""
        dns_hit == AnyStartsWith(dns_signals, "dns")
        via_dns == p0 = "unknown" /\ dns_hit
        final_platform == IF via_dns THEN "shopify" ELSE p0
        fp == IF via_dns
              THEN [best_fp EXCEPT !.platform = "shopify", !.confidence = "medium",
                                   !.signals = Append(@, <<"shopify", "dns_cname_hint">>),
                                   !.shop_presence_hint = "unclear"]
              ELSE best_fp
        shop_presence == IF final_platform \in NamedPlatforms /\ fp.shop_presence_hint = "unclear"
                         THEN "shop" ELSE fp.shop_presence_hint
        named_high == final_platform \in NamedPlatforms /\ fp.confidence = "high"
        confidence == IF named_high THEN "high"
                      ELSE IF final_platform = "other" THEN "medium"
                      ELSE IF final_platform = "shopify" /\ dns_hit THEN "medium"
                      ELSE "low"
        evidence_tier == IF named_high THEN "A"
                         ELSE IF final_platform = "other"
                         THEN (IF AnyStartsWith(fp.signals, "wordpress") THEN "A" ELSE "B")
                         ELSE IF final_platform = "shopify" /\ dns_hit THEN "A"
                         ELSE "C"
        merged == (<< <<"detector", "local">> >> \o Take(dns_signals, 2)) \o fp.signals
                  \o (IF best_is_input THEN <<>>
                      ELSE << <<"hint", "shop_found_via_link_or_subdomain">> >>)
    IN  ModelResult(input_url, final_platform, shop_presence, other_label, confidence,
                    evidence_tier, Take(merged, SignalCap), "Local checks.")

LdInitLoc == [input_url |-> <<>>, host |-> "", dns_signals |-> <<>>, best |-> NoFp,
              best_is_input |-> TRUE, links |-> <<>>, i |-> 0]

\* lines 161-175: DNS hint and the fingerprint of the given URL
LdEnter ==
    /\ prog = "local_detect" /\ pc = "start"
    /\ LET input_url == normalize_url(cfg.url)
           host == host_from_url(input_url)
       IN  \E dns \in (IF cfg.enable_dns_shopify /\ host # "" THEN LdDnsSignals ELSE {<<>>}) :
           \E resp \in (IF input_url = <<>> THEN {NoResp} ELSE PageResponses) :
             /\ loc' = [LdInitLoc EXCEPT !.input_url = input_url, !.host = host,
                                         !.dns_signals = dns,
                                         !.best = FpView(fingerprint_platform(input_url, resp,
                                                                              "installed"))]
             /\ calls' = (IF cfg.enable_dns_shopify /\ host # "" THEN <<"dns">> ELSE <<>>)
                         \o (IF input_url = <<>> THEN <<>> ELSE <<"homepage_get">>)
    /\ pc' = "ld_home"
    /\ UNCHANGED <<prog, cfg, debug, result, api_resp>> /\ OtherIdle

\* lines 177-184: second homepage GET for link extraction
LdHome ==
    /\ prog = "local_detect" /\ pc = "ld_home"
    /\ \E resp \in (IF loc.input_url = <<>> THEN {NoResp}
                    ELSE {r \in HomeResponses : r.headers = {}}) :
         LET f == ld_fetch_html(loc.input_url, resp)
         IN  /\ loc' = [loc EXCEPT !.links = IF cfg.probe_shop_links /\ f.html # {}
                                                 /\ f.final_url # <<>>
                                              THEN SelectSeq(extract_shop_links(f.final_url, f.html,
                                                                                f.hrefs),
                                                             LAMBDA link :
                                                               ~(/\ loc.host # ""
                                                                 /\ host_from_url(link) # ""
                                                                 /\ ~same_reg_domain(loc.host,
                                                                        host_from_url(link))))
                                              ELSE <<>>,
                                   !.i = 1]
             /\ calls' = IF loc.input_url = <<>> THEN calls ELSE Append(calls, "homepage_get")
    /\ pc' = "ld_links"
    /\ UNCHANGED <<prog, cfg, debug, result, api_resp>> /\ OtherIdle

\* one more candidate: fingerprint it, keep the better of the two
LdCandidate(url, call) ==
    \E resp \in PageResponses :
      LET fp == FpView(fingerprint_platform(url, resp, "installed"))
      IN  /\ loc' = [loc EXCEPT !.best = better(loc.best, fp),
                                !.best_is_input = IF score(fp) > score(loc.best) THEN FALSE ELSE @,
                                !.i = @ + 1]
          /\ calls' = Append(calls, call)

LdLinks ==
    /\ prog = "local_detect" /\ pc = "ld_links"
    /\ IF loc.i <= Len(loc.links)
       THEN LdCandidate(loc.links[loc.i], "link_get") /\ pc' = "ld_links"
       ELSE pc' = "ld_subs" /\ loc' = [loc EXCEPT !.i = 1] /\ UNCHANGED calls
    /\ UNCHANGED <<prog, cfg, debug, result, api_resp>> /\ OtherIdle

LdSubs ==
    /\ prog = "local_detect" /\ pc = "ld_subs"
    /\ IF cfg.probe_shop_subdomains /\ loc.i <= Len(ld_subdomain_urls(loc.host))
       THEN LdCandidate(ld_subdomain_urls(loc.host)[loc.i], "subdomain_get")
            /\ pc' = "ld_subs" /\ UNCHANGED result
       ELSE /\ Return(ld_decide(loc.input_url, loc.dns_signals, loc.best, loc.best_is_input))
            /\ UNCHANGED <<loc, calls>>
    /\ UNCHANGED <<prog, cfg, debug, api_resp>> /\ OtherIdle

LocalDetectNext == LdEnter \/ LdHome \/ LdLinks \/ LdSubs

(***************************************************************************)
(* Spec: one call of either detector.                                      *)
(***************************************************************************)
FpIdle == fp_in = NoFp /\ fp_out = NoFp
SlotIdle == sem = 0 /\ env = "" /\ tpc = <<>> /\ tfn = <<>>

Init ==
    /\ prog \in {"detect_platform_local", "local_detect"}
    /\ pc = "start"
    /\ cfg \in (IF prog = "detect_platform_local" THEN Flags ELSE LdConfigs)
    /\ loc = (IF prog = "detect_platform_local" THEN InitLoc ELSE LdInitLoc)
    /\ calls = <<>>
    /\ debug = InitDebug
    /\ result = NoResult
    /\ api_resp = NoResp
    /\ FpIdle /\ SlotIdle

Next == DetectNext \/ LocalDetectNext

Spec == Init /\ [][Next]_vars

(***************************************************************************)
(* SpecFP: fingerprint_platform_from_html applied to an arbitrary page.    *)
(***************************************************************************)
RECURSIVE PagesUpTo(_)
PagesUpTo(k) ==
    IF k = 0 THEN {{}}
    ELSE LET smaller == PagesUpTo(k - 1)
         IN  smaller \cup {b \cup {f} : b \in smaller, f \in RawFragments}
FpPages == PagesUpTo(MaxMarkers)
FpInputs == [html_lower : FpPages, shop_presence_mode : ModeInputs]

InitFP ==
    /\ prog = "fingerprint_platform_from_html"
    /\ pc = "start"
    /\ fp_in \in FpInputs
    /\ fp_out = NoFp
    /\ cfg = [url |-> <<>>] /\ loc = InitLoc /\ calls = <<>> /\ debug = InitDebug
    /\ result = NoResult /\ api_resp = NoResp
    /\ SlotIdle

FpApply ==
    /\ prog = "fingerprint_platform_from_html" /\ pc = "start"
    /\ fp_out' = fingerprint_platform_from_html(fp_in.html_lower, <<"https://", "example.test">>, 200, "",
                                                fp_in.shop_presence_mode)
    /\ pc' = "done"
    /\ UNCHANGED <<prog, cfg, loc, calls, debug, result, api_resp, fp_in, sem, env, tpc, tfn>>

NextFP == FpApply

SpecFP == InitFP /\ [][NextFP]_vars

(***************************************************************************)
(* SpecUrl: _normalize_url applied to an arbitrary text.                   *)
(***************************************************************************)
UrlTexts == UNION {[1 .. n -> UrlPieces] : n \in 0 .. MaxUrlLen}

InitUrl ==
    /\ prog = "normalize_url"
    /\ pc = "start"
    /\ cfg \in [url : UrlTexts]
    /\ loc = InitLoc /\ calls = <<>> /\ debug = InitDebug
    /\ result = NoResult /\ api_resp = NoResp
    /\ FpIdle /\ SlotIdle

\* input_url = _normalize_url(url); host = _host_from_url(input_url)
UrlNormalize ==
    /\ prog = "normalize_url" /\ pc = "start"
    /\ loc' = [loc EXCEPT !.input_url = normalize_url(cfg.url),
                          !.host = host_from_url(normalize_url(cfg.url))]
    /\ pc' = "done"
    /\ UNCHANGED <<prog, cfg, calls, debug, result, api_resp>> /\ OtherIdle

NextUrl == UrlNormalize

SpecUrl == InitUrl /\ [][NextUrl]_vars

(***************************************************************************)
(* SpecSlot: worker threads sharing the headless-browser semaphore of      *)
(* playwright_limit.py.                                                    *)
(***************************************************************************)
Threads == 1 .. NumThreads
DigitChars == <<"0", "1", "2", "3", "4", "5", "6", "7", "8", "9">>
EnvDigits == {DigitChars[k + 1] : k \in 0 .. Min(MaxEnvValue, 9)}
EnvChars == {" ", "-", "a"} \cup EnvDigits
\* the environment variable: unset, or a text of at most two characters
EnvValues == {[set |-> FALSE, raw |-> <<>>]}
             \cup {[set |-> TRUE, raw |-> r] : r \in {<<>>} \cup {<<c>> : c \in EnvChars}
                                                   \cup {<<c, d>> : c, d \in EnvChars}}

DigitVal(c) == CHOOSE k \in 0 .. 9 : DigitChars[k + 1] = c
AllDigits(r) == r # <<>> /\ \A i \in 1 .. Len(r) : r[i] \in EnvDigits
RECURSIVE Decimal(_)
Decimal(r) == IF r = <<>> THEN 0 ELSE 10 * Decimal(SubSeq(r, 1, Len(r) - 1)) + DigitVal(r[Len(r)])

\* int(raw): [parsed, value]; parsed = FALSE stands for ValueError
IntOf(r) ==
    IF AllDigits(r) THEN [parsed |-> TRUE, value |-> Decimal(r)]
    ELSE IF r # <<>> /\ Head(r) = "-" /\ AllDigits(Tail(r))
    THEN [parsed |-> TRUE, value |-> 0 - Decimal(Tail(r))]
    ELSE [parsed |-> FALSE, value |-> 0]

Max(a, b) == IF a >= b THEN a ELSE b

max_concurrency_from_env(e) ==
    LET raw == Strip(IF e.set THEN e.raw ELSE <<>>)
    IN  IF raw = <<>> THEN 1
        ELSE IF IntOf(raw).parsed THEN Max(1, IntOf(raw).value)
        ELSE 1

PlaywrightFns == {"fetch_html_playwright", "detect_shop_functionality_playwright"}
SessionExits == {"ok", "blocked", "empty_html", "nav_exception"}
InSlot(t) == tpc[t] \in {"launching", "session"}
Inside == {t \in Threads : InSlot(t)}

InitSlot ==
    /\ prog = "playwright_slot"
    /\ env \in EnvValues
    /\ sem = max_concurrency_from_env(env)
    /\ tpc = [t \in Threads |-> "idle"]
    /\ tfn = [t \in Threads |-> ""]
    /\ pc = "start" /\ cfg = [url |-> <<>>] /\ loc = InitLoc /\ calls = <<>> /\ debug = InitDebug
    /\ result = NoResult /\ api_resp = NoResp
    /\ FpIdle

SlotFrame == UNCHANGED <<prog, pc, cfg, loc, calls, debug, result, api_resp, fp_in, fp_out, env>>

\* the function is entered; without the playwright package it returns at once
SlotCall(t) ==
    /\ tpc[t] = "idle"
    /\ \E fn \in PlaywrightFns, importable \in BOOLEAN :
         /\ tfn' = [tfn EXCEPT ![t] = IF importable THEN fn ELSE ""]
         /\ tpc' = [tpc EXCEPT ![t] = IF importable THEN "waiting" ELSE "returned"]
    /\ UNCHANGED sem /\ SlotFrame

\* an acquire that does not wait for a free slot
SlotAcquireUnguarded(t) ==
    /\ tpc[t] = "waiting"
    /\ sem' = sem - 1
    /\ tpc' = [tpc EXCEPT ![t] = "launching"]
    /\ UNCHANGED <<tfn, prog, pc, cfg, loc, calls, debug, result, api_resp, fp_in, fp_out, env>>

\* an acquire that leaves the last slot unused
SlotAcquireNeedsTwo(t) ==
    /\ tpc[t] = "waiting"
    /\ sem > 1
    /\ sem' = sem - 1
    /\ tpc' = [tpc EXCEPT ![t] = "launching"]
    /\ UNCHANGED <<tfn, prog, pc, cfg, loc, calls, debug, result, api_resp, fp_in, fp_out, env>>

\* with _PW_SEMAPHORE: acquire blocks while no slot is free
SlotAcquire(t) ==
    /\ tpc[t] = "waiting"
    /\ sem > 0
    /\ sem' = sem - 1
    /\ tpc' = [tpc EXCEPT ![t] = "launching"]
    /\ UNCHANGED tfn /\ SlotFrame

\* a browser start whose failure leaves the with block without releasing the slot
SlotLaunchLeaks(t) ==
    /\ tpc[t] = "launching"
    /\ \E launched \in BOOLEAN :
         /\ tpc' = [tpc EXCEPT ![t] = IF launched THEN "session" ELSE "raised"]
         /\ tfn' = [tfn EXCEPT ![t] = IF launched THEN @ ELSE ""]
    /\ UNCHANGED <<sem, prog, pc, cfg, loc, calls, debug, result, api_resp, fp_in, fp_out, env>>

\* sync_playwright(), chromium.launch, new_context, new_page: outside the try
SlotLaunch(t) ==
    /\ tpc[t] = "launching"
    /\ \E launched \in BOOLEAN :
         IF launched
         THEN tpc' = [tpc EXCEPT ![t] = "session"] /\ UNCHANGED <<sem, tfn>>
         ELSE /\ tpc' = [tpc EXCEPT ![t] = "raised"]
              /\ tfn' = [tfn EXCEPT ![t] = ""]
              /\ sem' = sem + 1
    /\ SlotFrame

\* the try block returns on some path; finally closes, the with block releases
SlotFinish(t) ==
    /\ tpc[t] = "session"
    /\ \E exit \in SessionExits :
         /\ tpc' = [tpc EXCEPT ![t] = "returned"]
         /\ tfn' = [tfn EXCEPT ![t] = ""]
         /\ sem' = sem + 1
    /\ SlotFrame

\* the worker takes its next URL
SlotAgain(t) ==
    /\ tpc[t] \in {"returned", "raised"}
    /\ tpc' = [tpc EXCEPT ![t] = "idle"]
    /\ UNCHANGED <<sem, tfn>> /\ SlotFrame

NextSlot == \E t \in Threads : SlotCall(t) \/ SlotAcquire(t) \/ SlotLaunch(t) \/ SlotFinish(t)
                               \/ SlotAgain(t)

SpecSlot == InitSlot /\ [][NextSlot]_vars

\* Every thread that can take a step eventually takes it: a thread that could acquire
\* all the time does acquire, a browser start ends, a session ends.  The semaphore
\* wakes waiters in no promised order, so the acquire of one thread is only weakly
\* fair; whether a worker calls again is up to the worker.
SpecSlotFair ==
    /\ SpecSlot
    /\ \A t \in Threads : /\ WF_vars(SlotAcquire(t))
                          /\ WF_vars(SlotLaunch(t))
                          /\ WF_vars(SlotFinish(t))

(***************************************************************************)
(* SpecResume: one run of the batch runner evaluate_list.py (without       *)
(* --random-sample) over an input list and an output JSONL that may exist. *)
(* calls lists the websites handed to the evaluator.                       *)
(***************************************************************************)
\* u.rstrip("/")
RECURSIVE rstrip_slash(_)
rstrip_slash(r) ==
    IF r # <<>> /\ r[Len(r)] = "/" THEN rstrip_slash(SubSeq(r, 1, Len(r) - 1)) ELSE r

\* _normalize_for_dedupe: strip, drop the scheme, strip trailing slashes, lower-case
normalize_for_dedupe(url) ==
    IF Strip(url) = <<>> THEN <<>>
    ELSE [i \in 1 .. Len(rstrip_slash(Strip(IF HasScheme(Strip(url)) THEN Tail(Strip(url))
                                                                     ELSE Strip(url))))
          |-> LowerPiece(rstrip_slash(Strip(IF HasScheme(Strip(url)) THEN Tail(Strip(url))
                                                                    ELSE Strip(url)))[i])]

\* lines 480-483: the normalized websites of the records already written
processed_websites(resume, out_exists, out_before) ==
    IF resume /\ out_exists
    THEN {normalize_for_dedupe(out_before[i]) : i \in 1 .. Len(out_before)} \ {<<>>}
    ELSE {}

\* a resume filter that skips nothing
resume_skip_nothing(resume, key, processed) == FALSE

\* line 531: args.resume and key in processed
resume_skip(resume, key, processed) == resume /\ key \in processed

\* lines 524-536: the rows kept for evaluation, first occurrence only under --dedupe
RECURSIVE filter_rows(_, _, _)
filter_rows(rows, processed, seen) ==
    IF rows = <<>> THEN <<>>
    ELSE IF \/ Strip(Head(rows)) = <<>>
            \/ (cfg.dedupe \/ cfg.resume) /\ normalize_for_dedupe(Strip(Head(rows))) = <<>>
            \/ resume_skip(cfg.resume, normalize_for_dedupe(Strip(Head(rows))), processed)
            \/ cfg.dedupe /\ normalize_for_dedupe(Strip(Head(rows))) \in seen
    THEN filter_rows(Tail(rows), processed, seen)
    ELSE <<Head(rows)>>
         \o filter_rows(Tail(rows), processed,
                        IF cfg.dedupe THEN seen \cup {normalize_for_dedupe(Strip(Head(rows)))}
                        ELSE seen)

\* rows: the Website cell of every input row; out_before: the website of every line
\* of the output JSONL before the run (<<>> for a line without one)
InitResume ==
    /\ prog = "evaluate_list"
    /\ pc = "start"
    /\ cfg \in {c \in [rows : UNION {[1 .. n -> {<<>>, <<"example.test">>,
                                                  <<"HTTPS://", "Example.Test", "/">>,
                                                  <<"shop.example.test">>, <<"https://">>}] :
                                      n \in 0 .. MaxRows},
                        resume : BOOLEAN, dedupe : BOOLEAN, limit : {None, 1},
                        continue_on_error : BOOLEAN, out_exists : BOOLEAN,
                        out_before : UNION {[1 .. n -> {<<>>, <<"example.test">>,
                                                        <<"Http://", "Example.Test", "/">>}] :
                                            n \in 0 .. 1}] :
                 c.out_exists \/ c.out_before = <<>>}
    /\ loc = [processed |-> {}, filtered_rows |-> <<>>, i |-> 0, out_mode |-> "",
              out_file |-> cfg.out_before]
    /\ calls = <<>> /\ debug = InitDebug
    /\ result = NoResult /\ api_resp = NoResp
    /\ FpIdle /\ SlotIdle

\* lines 480-553: read the processed websites, filter the rows, open the output
RunLoad ==
    /\ prog = "evaluate_list" /\ pc = "start"
    /\ \E processed \in {processed_websites(cfg.resume, cfg.out_exists, cfg.out_before)} :
       \E kept \in {filter_rows(cfg.rows, processed, {})} :
         loc' = [loc EXCEPT !.processed = processed,
                            !.filtered_rows = IF cfg.limit = None THEN kept
                                              ELSE Take(kept, Max(0, cfg.limit)),
                            !.i = 1,
                            !.out_mode = IF cfg.resume /\ cfg.out_exists THEN "a" ELSE "w",
                            !.out_file = IF cfg.resume /\ cfg.out_exists THEN @ ELSE <<>>]
    /\ pc' = "eval"
    /\ UNCHANGED <<prog, cfg, calls, debug, result, api_resp>> /\ OtherIdle

\* lines 555-878: one row: call the evaluator, write its record (an error record under
\* --continue-on-error, otherwise the exception ends the run)
RunEval ==
    /\ prog = "evaluate_list" /\ pc = "eval"
    /\ IF loc.i > Len(loc.filtered_rows)
       THEN pc' = "done" /\ UNCHANGED <<loc, calls>>
       ELSE \E ok \in BOOLEAN :
              /\ calls' = Append(calls, Strip(loc.filtered_rows[loc.i]))
              /\ IF ok \/ cfg.continue_on_error
                 THEN /\ pc' = "eval"
                      /\ loc' = [loc EXCEPT !.i = @ + 1,
                                            !.out_file = Append(@, Strip(loc.filtered_rows[loc.i]))]
                 ELSE pc' = "raised" /\ UNCHANGED loc
    /\ UNCHANGED <<prog, cfg, debug, result, api_resp>> /\ OtherIdle

NextResume == RunLoad \/ RunEval

SpecResume == InitResume /\ [][NextResume]_vars

(***************************************************************************)
(* Properties of one detector call (Spec).                                 *)
(***************************************************************************)
Returned == prog = "detect_platform_local" /\ pc = "done"
AnyReturned == prog \in {"detect_platform_local", "local_detect"} /\ pc = "done"
Issued(call) == \E i \in 1 .. Len(calls) : calls[i] = call
LastCall == IF calls = <<>> THEN "" ELSE calls[Len(calls)]

\* C1: in detect_platform_local, whenever the DNS prober reports a Shopify CNAME for the
\* host, the call has returned final_platform=shopify, confidence=high, evidence_tier=A and
\* the DNS lookup is the only probe it invoked (no /cart.js, Store-API, homepage GET,
\* link/path/subdomain probe or headless fallback), in every mode and flag setting.
C1_DnsHitShortCircuits ==
    (prog = "detect_platform_local" /\ loc.dns_cname # "") =>
        /\ pc = "done"
        /\ result.final_platform = "shopify"
        /\ result.confidence = "high"
        /\ result.evidence_tier = "A"
        /\ calls = <<"dns">>

C1_DnsHitReturned ==
    /\ Returned /\ loc.dns_cname # ""
    /\ cfg.shop_presence_mode = "functional"
    /\ cfg.playwright_fallback_on_blocked /\ cfg.enable_wc_store_api_probe

\* C2: every result returned by detect_platform_local or by local_detect pairs
\* evidence_tier=A with confidence high or medium, and final_platform=unknown with
\* confidence low.
C2_TierConfidencePairing ==
    AnyReturned =>
        /\ result.evidence_tier = "A" => result.confidence \in {"high", "medium"}
        /\ result.final_platform = "unknown" => result.confidence = "low"

C2_LocalDetectDnsHint ==
    /\ prog = "local_detect" /\ pc = "done"
    /\ result.evidence_tier = "A" /\ result.confidence = "medium"
    /\ result.final_platform = "shopify"

\* the homepage GET was answered 403/429/503 or with bot-challenge vocabulary in the body
HomepageBlocked ==
    /\ Issued("homepage_get")
    /\ \/ /\ Len(loc.base_err) = 2 /\ loc.base_err[1] = "HTTPError"
          /\ loc.base_err[2] \in {403, 429, 503}
       \/ looks_like_bot_challenge(loc.base_html)

FallbackDisabled == ~cfg.playwright_fallback_on_blocked /\ ~cfg.playwright_fallback_on_unknown

\* the returned named platform was found by the DNS, an endpoint, a link, a path or a
\* subdomain probe: the call returned from that probe
ProbeYieldedNamed ==
    /\ result.final_platform \in NamedPlatforms
    /\ LastCall \in {"dns", "cart_js", "store_api", "wc_store_api", "link_get", "path_get",
                     "subdomain_get"}

\* C3 (closing clause): when the homepage GET is blocked, the headless fallback is
\* disabled and no DNS, endpoint, link or subdomain probe yields platform evidence,
\* detect_platform_local never returns shop_presence=not_shop with high or medium
\* confidence.
C3_BlockedNeverConfidentNotShop ==
    (Returned /\ HomepageBlocked /\ FallbackDisabled /\ ~ProbeYieldedNamed /\ ~debug.probe_other)
        => ~(result.shop_presence = "not_shop" /\ result.confidence \in {"high", "medium"})

(***************************************************************************)
(* Properties of fingerprint_platform_from_html (SpecFP).                  *)
(***************************************************************************)
\* the page carries the WooCommerce plugin path and otherwise only text and generic
\* WordPress paths: no cart or checkout vocabulary, no transactional marker
OnlyWooPluginMarker(html_lower) ==
    /\ "wp-content/plugins/woocommerce" \in html_lower
    /\ html_lower \subseteq {"wp-content/plugins/woocommerce", "wp-content/", "wp-includes/",
                             "wp-json/", "brochure text"}

\* C4: fingerprint_platform_from_html returns platform=woocommerce only together with
\* shop_presence_hint=shop; for HTML whose only marker is wp-content/plugins/woocommerce,
\* in functional mode, the platform is `other` or inconclusive, never woocommerce.
C4_WooCommerceGuard ==
    (prog = "fingerprint_platform_from_html" /\ pc = "done") =>
        /\ fp_out.platform = "woocommerce" => fp_out.shop_presence_hint = "shop"
        /\ (/\ OnlyWooPluginMarker(fp_in.html_lower)
            /\ NormalizeMode(fp_in.shop_presence_mode) = "functional")
           => fp_out.platform \in {"other", "inconclusive"}

C4_PluginOnlyFunctional ==
    /\ prog = "fingerprint_platform_from_html" /\ pc = "done"
    /\ fp_in.html_lower = {"wp-content/plugins/woocommerce"}
    /\ fp_in.shop_presence_mode = " Functional"
    /\ fp_out.platform = "inconclusive"
    /\ fp_out.shop_presence_hint = "not_shop"

(***************************************************************************)
(* Properties of one detector call (Spec), continued.                      *)
(***************************************************************************)
\* HTTP 200 with a body that parses as a JSON object containing an `items` key
CartJsAnswerIsCart(resp) ==
    /\ resp.kind = "ok" /\ resp.status = 200
    /\ JsonLoads(resp.body).ok
    /\ JsonLoads(resp.body).type = "dict"
    /\ "items" \in JsonLoads(resp.body).keys

\* C5: the /cart.js step runs only after a DNS miss and hits exactly when its one GET is
\* answered 200 with a JSON object containing `items`; on a hit the call has returned
\* shopify / shop / high / A without a Store-API probe or homepage GET; on any other
\* answer the cascade continues with the Store-API probe.
C5_CartJsShortCircuit ==
    (prog = "detect_platform_local" /\ LastCall = "cart_js") =>
        /\ loc.dns_cname = ""
        /\ loc.cart_hit <=> CartJsAnswerIsCart(api_resp)
        /\ loc.cart_hit =>
             /\ pc = "done"
             /\ result.final_platform = "shopify" /\ result.shop_presence = "shop"
             /\ result.confidence = "high" /\ result.evidence_tier = "A"
             /\ calls = <<"dns", "cart_js">>
        /\ ~loc.cart_hit => pc = "store_api" /\ result = NoResult

C5_CartJsHitFunctional ==
    /\ Returned /\ LastCall = "cart_js" /\ loc.cart_hit
    /\ cfg.shop_presence_mode = "functional"
    /\ api_resp.body = "{\"items\": []}"

\* the page carries no marker of any platform, WordPress included
NoPlatformMarker(html) ==
    /\ Hits(html, ShopifyMarkers) = <<>>
    /\ Hits(html, WooMarkers) = <<>>
    /\ Hits(html, Shopware5Markers) = <<>>
    /\ Hits(html, MagentoMarkers) = <<>>
    /\ Hits(html, WordPressMarkers) = <<>>
    /\ ~Has(html, "shopware") /\ ~Has(html, "/widgets/") /\ ~Has(html, "/bundles/storefront")
    /\ ~Has(html, "re:meta_generator_shopware")

PlainHomepage ==
    /\ Issued("homepage_get")
    /\ loc.base_status = 200
    /\ NoPlatformMarker(loc.base_html)

UnknownLowC ==
    /\ result.final_platform = "unknown"
    /\ result.shop_presence \in {"unclear", "not_shop"}
    /\ result.confidence = "low"
    /\ result.evidence_tier = "C"

\* C6 as stated: if the homepage returns HTTP 200 with HTML that has no platform marker
\* and no DNS, endpoint, link, path or subdomain probe yields a named platform or `other`,
\* detect_platform_local returns unknown, unclear or not_shop, low, tier C.
C6_PlainHomepageUnknown ==
    (Returned /\ PlainHomepage /\ ~ProbeYieldedNamed /\ ~debug.probe_other) => UnknownLowC

\* C6, amended: the same, for non-empty HTML, when in addition the homepage response
\* carries no Shopware or Shopify header or cookie hint and the headless fallback, if it
\* ran, found no named platform.
C6_PlainHomepageNoHintUnknown ==
    (/\ Returned /\ PlainHomepage /\ ~ProbeYieldedNamed /\ ~debug.probe_other
     /\ loc.base_html # {}
     /\ ~shopware_header_hint(loc.base_headers) /\ ~shopify_header_hint(loc.base_headers)
     /\ ~(result.final_platform \in NamedPlatforms /\ LastCall = "playwright"))
        => UnknownLowC

C6_BrochureGivenUp ==
    /\ Returned /\ PlainHomepage /\ loc.base_html = {"brochure text"}
    /\ loc.base_headers = {}
    /\ Issued("link_get") /\ Issued("path_get") /\ Issued("subdomain_get")
    /\ LastCall = "playwright"
    /\ ~debug.probe_other
    /\ result.final_platform = "unknown"

OutputKeys ==
    {"input_url", "shop_presence", "final_platform", "other_platform_label", "confidence",
     "evidence_tier", "signals", "reasoning"}

\* C7: every model_result returned by detect_platform_local has exactly the eight keys of
\* the output contract, values inside the enumerations (final_platform never
\* inconclusive or error), at most 8 signals, and a non-empty other_platform_label only
\* with final_platform=other.
C7_OutputContract ==
    Returned =>
        /\ DOMAIN result = OutputKeys
        /\ result.shop_presence \in {"shop", "not_shop", "unclear"}
        /\ result.final_platform \in {"magento", "shopware", "woocommerce", "shopify", "other",
                                      "unknown"}
        /\ result.confidence \in {"low", "medium", "high"}
        /\ result.evidence_tier \in {"A", "B", "C"}
        /\ Len(result.signals) <= 8
        /\ result.other_platform_label # "" => result.final_platform = "other"

C7_SignalsTruncated ==
    /\ Returned /\ LastCall = "wc_store_api"
    /\ Len(loc.fp0.signals) = 8
    /\ Len(result.signals) = 8
    /\ result.final_platform = "woocommerce"

\* a signal that records a DNS or endpoint proof
ProofSignal(sig) ==
    \/ sig[1] = "dns"
    \/ sig \in {<<"shopify", "/cart.js">>, <<"shopware", "/store-api/context">>,
                <<"shopify", "dns_cname_hint">>}
    \/ Len(sig) = 3 /\ sig[2] = "store_api"

\* C8: in every detector result, tier A rests on an endpoint or DNS proof or on a
\* high-confidence verdict, the medium-confidence generic WordPress `other` verdict has
\* tier B, and a low-confidence result has tier C.
C8_TierDerivation ==
    AnyReturned =>
        /\ result.evidence_tier = "A" =>
             \/ result.confidence = "high"
             \/ \E i \in 1 .. Len(result.signals) : ProofSignal(result.signals[i])
        /\ (result.final_platform = "other" /\ result.confidence = "medium")
             => result.evidence_tier = "B"
        /\ result.confidence = "low" => result.evidence_tier = "C"

\* C9: detect_platform_local never raises: whatever a probe does, a headless browser
\* launch failure included, the call does not end in an exception.
C9_NeverRaises == prog = "detect_platform_local" => pc # "raised"

(***************************************************************************)
(* Properties of the headless-browser limiter (SpecSlot).                  *)
(***************************************************************************)
\* max(1, value); 1 when the variable is unset, empty, unparsable, zero or negative
StatedCapacity ==
    LET raw == Strip(env.raw)
    IN  IF ~env.set \/ raw = <<>> \/ ~IntOf(raw).parsed THEN 1
        ELSE IF IntOf(raw).value <= 0 THEN 1
        ELSE IntOf(raw).value

\* C10: the number of threads inside a playwright_slot block never exceeds the
\* semaphore's capacity, and that capacity (free slots plus threads inside) is
\* max(1, SHOPTECH_PLAYWRIGHT_MAX_CONCURRENCY), 1 when the variable is unset, empty,
\* unparsable, zero or negative.
C10_SlotBound ==
    prog = "playwright_slot" =>
        /\ Cardinality(Inside) <= StatedCapacity
        /\ sem >= 0
        /\ sem + Cardinality(Inside) = StatedCapacity

C10_SlotsFullOneWaiting ==
    /\ prog = "playwright_slot"
    /\ StatedCapacity = 2 /\ Cardinality(Inside) = 2 /\ sem = 0
    /\ \E t \in Threads : tpc[t] = "waiting"
    /\ \E t, u \in Inside : tfn[t] # tfn[u]

\* C11: the slot a browser session acquired is released on every exit path of the session
\* (normal return, blocked page, empty HTML, navigation exception, browser launch failure):
\* whenever no thread is inside a session, all the slots of the semaphore are free.
C11_SlotReleasedOnEveryExit ==
    (prog = "playwright_slot" /\ Inside = {}) => sem = max_concurrency_from_env(env)

C11_LaunchFailedAndReturned ==
    /\ prog = "playwright_slot" /\ Inside = {}
    /\ \E t, u \in Threads : tpc[t] = "raised" /\ tpc[u] = "returned"
    /\ \A t \in Threads : tpc[t] \in {"raised", "returned"}
    /\ max_concurrency_from_env(env) = 2
    /\ sem = 2

(***************************************************************************)
(* Properties of one detector call (Spec): empty input.                    *)
(***************************************************************************)
\* the given URL is empty or consists of white space
BlankInput == prog = "detect_platform_local" /\ Strip(cfg.url) = <<>>

\* C12: for an empty or whitespace-only input the normalized URL and the host are empty
\* and detect_platform_local performs no network operation at all (no DNS lookup, no HTTP
\* GET, no endpoint probe, no headless-browser navigation), whatever the mode and the
\* fallback flags.
C12_EmptyInputNoNetwork ==
    BlankInput =>
        /\ pc # "start" => (loc.input_url = <<>> /\ loc.host = "")
        /\ calls = <<>>

(***************************************************************************)
(* Properties of one detector call (Spec): the debug record.               *)
(***************************************************************************)
\* debug records that differ from the current one in their contents only
DebugContents ==
    {[debug EXCEPT !.is_sticky = sticky, !.keys = (@ \ {"playwright_fetch"}) \cup fetched] :
        sticky \in BOOLEAN, fetched \in {{}, {"playwright_fetch"}}}

ShopHints == {"shop", "not_shop", "unclear"}

\* C13: no decision of the cascade reads a value from debug: with any other contents of
\* debug, the shop_presence given to a tentative `other` (whatever the fingerprint's
\* hint) and the decision to run the headless fallback on unknown are the same.
C13_DebugWriteOnly ==
    prog = "detect_platform_local" =>
        \A d \in DebugContents :
            /\ pc = "fp0" =>
                 \A h \in ShopHints :
                     tentative_presence(cfg.cautious_on_sticky, loc.mode, d.is_sticky,
                                        [shop_presence_hint |-> h])
                     = tentative_presence(cfg.cautious_on_sticky, loc.mode, debug.is_sticky,
                                          [shop_presence_hint |-> h])
            /\ (pc = "tail" /\ loc.tentative_other = NoResult) =>
                 unknown_fallback_due(d) = unknown_fallback_due(debug)

(***************************************************************************)
(* Properties of _normalize_url (SpecUrl).                                 *)
(***************************************************************************)
\* C14: URL normalization is idempotent: normalizing a normalized URL yields the same
\* URL, for empty and whitespace-padded texts, bare domains and texts that carry an
\* http:// or https:// scheme in any letter case.
C14_NormalizeIdempotent ==
    (prog = "normalize_url" /\ pc = "done") => normalize_url(loc.input_url) = loc.input_url

C14_PaddedBareDomainNormalized ==
    /\ prog = "normalize_url" /\ pc = "done"
    /\ cfg.url = <<" ", "Example.Test", "\t">>
    /\ loc.input_url = <<"https://", "Example.Test">>
    /\ loc.host = "example.test"

(***************************************************************************)
(* Properties of OUTPUT_SCHEMA.                                            *)
(***************************************************************************)
SchemaKeys == DOMAIN OUTPUT_SCHEMA.properties
SchemaRequired == {OUTPUT_SCHEMA.required[i] : i \in 1 .. Len(OUTPUT_SCHEMA.required)}

ProcessedBefore ==
    {normalize_for_dedupe(cfg.out_before[i]) : i \in 1 .. Len(cfg.out_before)} \ {<<>>}

\* the rows left after the resume filter, in input order
RemainingRows ==
    SelectSeq([i \in 1 .. Len(cfg.rows) |-> Strip(cfg.rows[i])],
              LAMBDA w : w # <<>> /\ normalize_for_dedupe(w) \notin ProcessedBefore)

\* the positions of the rows that are to be evaluated: a non-empty normalized
\* website that is not in the output, and under --dedupe its first occurrence
KeptPositions ==
    SelectSeq([i \in 1 .. Len(cfg.rows) |-> i],
              LAMBDA i : /\ normalize_for_dedupe(cfg.rows[i]) # <<>>
                         /\ normalize_for_dedupe(cfg.rows[i]) \notin ProcessedBefore
                         /\ cfg.dedupe =>
                              \A j \in 1 .. i - 1 : normalize_for_dedupe(cfg.rows[j])
                                                    # normalize_for_dedupe(cfg.rows[i]))

RowsToEvaluate ==
    [k \in 1 .. (IF cfg.limit = None THEN Len(KeptPositions)
                 ELSE Min(Len(KeptPositions), cfg.limit))
     |-> Strip(cfg.rows[KeptPositions[k]])]

ResumedRun == prog = "evaluate_list" /\ cfg.resume /\ cfg.out_exists /\ pc # "start"

\* C16 as stated: under --resume no row whose normalized website is in the output
\* JSONL reaches the evaluator, every remaining row is evaluated in input order,
\* and the new records are appended to the existing output.
C16_ResumeEvaluatesAllRemaining ==
    ResumedRun =>
        /\ \A k \in 1 .. Len(calls) : normalize_for_dedupe(calls[k]) \notin ProcessedBefore
        /\ pc = "done" => /\ calls = RemainingRows
                          /\ loc.out_file = cfg.out_before \o RemainingRows

\* C16, amended: under --resume (without --random-sample) no row whose normalized
\* website is in the output JSONL reaches the evaluator; of the remaining rows
\* those with a non-empty normalized website - only the first occurrence of each
\* under --dedupe, only the first --limit of them - are evaluated in input order;
\* the existing records stay in place and a run that completes has appended one
\* record per evaluated row after them.
C16_ResumeSkipsProcessedAndAppends ==
    ResumedRun =>
        /\ \A k \in 1 .. Len(calls) : normalize_for_dedupe(calls[k]) \notin ProcessedBefore
        /\ calls = SubSeq(RowsToEvaluate, 1, Len(calls))
        /\ loc.out_mode = "a"
        /\ SubSeq(loc.out_file, 1, Len(cfg.out_before)) = cfg.out_before
        /\ pc = "done" => /\ calls = RowsToEvaluate
                          /\ loc.out_file = cfg.out_before \o RowsToEvaluate

\* the first row is skipped through its normalized website, the second is evaluated
\* and its record follows the record that was there
C16_ProcessedSkippedRestAppended ==
    /\ ResumedRun /\ pc = "done"
    /\ cfg.out_before = << <<"example.test">> >>
    /\ cfg.rows = << <<"HTTPS://", "Example.Test", "/">>, <<"shop.example.test">> >>
    /\ calls = << <<"shop.example.test">> >>
    /\ loc.out_file = << <<"example.test">>, <<"shop.example.test">> >>

(***************************************************************************)
(* Order and deferral in the cascade of detect_platform_local (Spec).      *)
(***************************************************************************)
\* the homepage fetch was flagged sticky (lines 346-365)
StickyHomepage == prog = "detect_platform_local" /\ loc.sticky_reasons # <<>>

\* the returned verdict was not obtained from another probe: a named platform
\* was returned right after a GET of the homepage
VerdictFromHomepage == result.final_platform \in NamedPlatforms => LastCall = "homepage_get"

\* C17: whenever the homepage fetch is flagged sticky, detect_platform_local never
\* returns shop_presence=not_shop (unless the verdict was obtained from another
\* probe), for every mode and every setting of cautious_on_sticky.
C17_StickyNeverNotShop ==
    (Returned /\ StickyHomepage /\ VerdictFromHomepage) => result.shop_presence # "not_shop"

CountCalls(call) == Cardinality({i \in 1 .. Len(calls) : calls[i] = call})

\* every shop link of the homepage, every path probe (unless the homepage is
\* sticky) and every subdomain candidate has been fetched
AllCandidatesProbed ==
    /\ CountCalls("link_get") = Len(loc.links)
    /\ CountCalls("path_get") = IF loc.sticky_reasons = <<>> THEN Len(PathProbes) ELSE 0
    /\ CountCalls("subdomain_get") = Len(subdomain_candidates(loc.host))

\* C18: when the homepage fingerprint is `other`, `other` is returned only after every
\* shop link, every path probe (homepage not sticky) and every subdomain candidate
\* has been probed and none of them yielded a named platform; when one of them
\* yields a named platform, that platform is the final result.
C18_TentativeOtherDeferred ==
    (Returned /\ loc.fp0.platform = "other") =>
        /\ result.final_platform = "other" =>
              /\ AllCandidatesProbed
              /\ ~debug.probe_named
              /\ result = loc.tentative_other
        /\ debug.probe_named =>
              /\ result.final_platform \in NamedPlatforms
              /\ LastCall \in {"link_get", "path_get", "subdomain_get"}

\* a WordPress homepage with a shop link: `other` is held through the link and the
\* path probes and given up when a subdomain shows a named platform
C18_OtherDiscardedForSubdomainShop ==
    /\ Returned /\ loc.fp0.platform = "other" /\ loc.tentative_other # NoResult
    /\ Len(loc.links) >= 1 /\ CountCalls("link_get") = Len(loc.links)
    /\ CountCalls("path_get") = Len(PathProbes)
    /\ LastCall = "subdomain_get"
    /\ result.final_platform \in NamedPlatforms

\* the homepage response carries a Shopware or Shopify header/cookie hint
HeaderHinted ==
    /\ prog = "detect_platform_local"
    /\ shopware_header_hint(loc.base_headers) \/ shopify_header_hint(loc.base_headers)

HintReasonings == {"HTTP headers/cookies indicate Shopware.", "HTTP headers/cookies indicate Shopify."}

\* C19: the headless fallback-on-blocked comes after the header/cookie hints and the
\* homepage fingerprint: when the homepage response carries a Shopware or Shopify
\* header/cookie hint, no headless navigation is performed and the result comes
\* from the hint, even if the page is sticky and playwright_fallback_on_blocked
\* is enabled.
C19_HeaderHintBeforeHeadless ==
    HeaderHinted =>
        /\ ~Issued("playwright")
        /\ Returned => result.reasoning \in HintReasonings

\* C20: with playwright_fallback_on_unknown enabled, a held tentative `other` is
\* returned only after the headless fallback has been attempted in this call (and
\* found no named platform).
C20_FallbackBeforeTentativeOther ==
    (/\ Returned /\ cfg.playwright_fallback_on_unknown
     /\ loc.tentative_other # NoResult /\ result = loc.tentative_other)
        => "playwright_fetch" \in debug.keys

(***************************************************************************)
(* Fetch discipline of detect_platform_local (Spec).                       *)
(***************************************************************************)
\* C22: within one detect_platform_local call the homepage URL is requested by plain
\* HTTP GET at most once, whatever the outcome of that request.
C22_HomepageFetchedOnce ==
    prog = "detect_platform_local" => CountCalls("homepage_get") <= 1

(***************************************************************************)
(* Link discovery of both detectors (Spec).                                *)
(***************************************************************************)
\* the links fetched so far by the link loop: the first CountCalls("link_get") of them
FetchedLinks == SubSeq(loc.links, 1, CountCalls("link_get"))

\* C21: every URL that link discovery fetches has the registrable domain of the
\* input host; an href resolving to another registrable domain is never fetched.
C21_LinksStayOnRegistrableDomain ==
    (prog \in {"detect_platform_local", "local_detect"} /\ loc.host # "") =>
        \A k \in 1 .. Len(FetchedLinks) :
            same_reg_domain(loc.host, host_from_url(FetchedLinks[k]))

(***************************************************************************)
(* Properties of probe_shopify_cname (Spec, step 1).                       *)
(***************************************************************************)
\* the CNAME target a line of the lookup output reports, "" if it reports none
CnameTarget(line) ==
    CASE line = "example.test canonical name = checkout.shops.myshopify.com."
              -> "checkout.shops.myshopify.com"
      [] line = "example.test canonical name = my-store.myshopify.com." -> "my-store.myshopify.com"
      [] line = "example.test canonical name = cdn.example.test." -> "cdn.example.test"
      [] line = "example.test canonical name = myshopify.com.evil.test."
              -> "myshopify.com.evil.test"
      [] OTHER -> ""

\* myshopify.com or a subdomain of it
UnderMyshopify(target) == target \in {"checkout.shops.myshopify.com", "my-store.myshopify.com"}

\* C27: probe_shopify_cname reports a hit only when a CNAME target of the queried
\* host is myshopify.com or a subdomain of it.
C27_CnameHitOnlyForMyshopify ==
    (prog = "detect_platform_local" /\ loc.dns_cname # "") =>
        \E i \in 1 .. Len(loc.dns_lines) : UnderMyshopify(CnameTarget(loc.dns_lines[i]))

(***************************************************************************)
(* The shop-presence mode in detect_platform_local (Spec).                 *)
(***************************************************************************)
\* the verdicts that rest on platform identity only: DNS CNAME, Shopware Store-API
\* context, Shopware or Shopify header/cookie hint
IdentityOnlyReasonings ==
    {"DNS CNAME indicates Shopify (myshopify).", "Shopware Store API endpoint indicates Shopware."}
    \cup HintReasonings

\* C23: in functional mode a verdict resting only on platform identity yields
\* shop_presence=unclear, not shop.
C23_IdentityOnlyIsUnclear ==
    (Returned /\ loc.mode = "functional" /\ result.reasoning \in IdentityOnlyReasonings)
        => result.shop_presence = "unclear"

(***************************************************************************)
(* Properties of the endpoint probers (Spec, steps 1c and 3b).             *)
(***************************************************************************)
\* HTTP 200 with a body that parses as a JSON array or as a JSON object containing
\* a `products` or `items` key
WcAnswerIsCatalogue(resp) ==
    /\ resp.kind = "ok" /\ resp.status = 200
    /\ JsonLoads(resp.body).ok
    /\ \/ JsonLoads(resp.body).type = "list"
       \/ /\ JsonLoads(resp.body).type = "dict"
          /\ JsonLoads(resp.body).keys \cap {"products", "items"} # {}

\* C24: _probe_wc_store_api_products reports a hit if and only if the GET returns
\* HTTP 200 with a JSON array or a JSON object containing `products` or `items`.
C24_WcStoreApiHitIff ==
    (prog = "detect_platform_local" /\ LastCall = "wc_store_api") =>
        (Returned <=> WcAnswerIsCatalogue(api_resp))

\* HTTP 401 or 403 with a JSON body whose errors list has an entry whose detail
\* mentions sw-access-key
ShopwareAnswerDemandsKey(resp) ==
    /\ resp.kind = "http_error" /\ resp.status \in {401, 403}
    /\ JsonLoads(resp.body).ok
    /\ ErrorsMentionAccessKey(resp.body)

\* C25: _probe_shopware_store_api_context reports a hit if and only if the GET is
\* answered with HTTP 401 or 403 and a JSON body whose errors list has an entry
\* whose detail mentions sw-access-key.
C25_ShopwareStoreApiHitIff ==
    (prog = "detect_platform_local" /\ LastCall = "store_api") =>
        (loc.store_hit <=> ShopwareAnswerDemandsKey(api_resp))

(***************************************************************************)
(* HTTP error responses in the homepage fetch (Spec, step 2).              *)
(***************************************************************************)
\* C26: when the server answers the homepage GET with an HTTP 4xx/5xx response, the
\* fetcher of detect_platform_local returns that status code as data.
C26_ErrorStatusKept ==
    (prog = "detect_platform_local" /\ Len(loc.base_err) = 2 /\ loc.base_err[1] = "HTTPError")
        => loc.base_status = loc.base_err[2]

(***************************************************************************)
(* Gating of the headless fallback in detect_platform_local (Spec).        *)
(***************************************************************************)
\* fetch_html_playwright has been invoked in this call
PwInvoked == prog = "detect_platform_local" /\ loc.pw_calls >= 1

\* the condition of the on-blocked invocation
BlockedFallbackDue ==
    cfg.playwright_fallback_on_blocked /\ (loc.base_html = {} \/ loc.sticky_reasons # <<>>)

\* C28: within one call fetch_html_playwright is invoked at most once; it is never
\* invoked when both fallback flags are false; without the on-unknown flag
\* an invocation happens only on a sticky or empty homepage fetch; an invocation
\* that is not the on-blocked one happens only at the end of the plain path, when
\* no named platform was found and no tentative `other` is held.
C28_HeadlessFallbackGated ==
    prog = "detect_platform_local" =>
        /\ loc.pw_calls <= 1
        /\ CountCalls("playwright") <= loc.pw_calls
        /\ PwInvoked =>
             /\ cfg.playwright_fallback_on_blocked \/ cfg.playwright_fallback_on_unknown
             /\ ~cfg.playwright_fallback_on_unknown => BlockedFallbackDue
             /\ ~BlockedFallbackDue =>
                  /\ cfg.playwright_fallback_on_unknown
                  /\ pc \in {"done", "raised"}
                  /\ loc.tentative_other = NoResult
                  /\ loc.fp0.platform \notin NamedPlatforms \cup {"none"}
                  /\ ~debug.probe_named
                  /\ AllCandidatesProbed

\* the plain path of a readable homepage ended unresolved and the on-unknown
\* fallback found a named platform in the rendered page
C28_UnknownFallbackFoundPlatform ==
    /\ Returned /\ PwInvoked /\ ~BlockedFallbackDue
    /\ LastCall = "playwright" /\ CountCalls("playwright") = 1
    /\ result.final_platform \in NamedPlatforms

(***************************************************************************)
(* The priority order of fingerprint_platform_from_html (SpecFP).          *)
(***************************************************************************)
\* some marker of the tuple occurs in the lower-cased page
AnyMarker(seq) == \E i \in 1 .. Len(seq) : Has(LowerBody(fp_in.html_lower), seq[i])

\* the Shopware marker families: storefront bundle path, plugin-version attribute,
\* window.shopware, generator meta tag, Shopware 5 paths
AnyShopwareMarker ==
    AnyMarker(<<"/bundles/storefront", "data-plugin-version=\"shopware",
                "data-plugin-version='shopware", "window.shopware",
                "re:meta_generator_shopware">> \o Shopware5Markers)

\* platform and confidence by the stated priority order
PriorityVerdict ==
    IF AnyMarker(ShopifyMarkers) THEN <<"shopify", "high">>
    ELSE IF AnyMarker(WooMarkers) /\ fp_out.shop_presence_hint = "shop" THEN <<"woocommerce", "high">>
    ELSE IF AnyShopwareMarker THEN <<"shopware", "high">>
    ELSE IF AnyMarker(MagentoMarkers) THEN <<"magento", "high">>
    ELSE IF Cardinality({m \in {"wp-content/", "wp-includes/", "wp-json/"} :
                            AnyMarker(<<m>>)}) >= 2
    THEN <<"other", "medium">>
    ELSE <<"inconclusive", "low">>

\* C29: fingerprint_platform_from_html returns the platform and confidence of the
\* fixed priority order shopify, woocommerce (with shop_presence_hint=shop),
\* shopware, magento, other (two WordPress paths, medium), inconclusive (low), for
\* both modes and every page; named platforms come with high confidence and an
\* empty page is inconclusive.
C29_MarkerPriorityOrder ==
    (prog = "fingerprint_platform_from_html" /\ pc = "done") =>
        /\ <<fp_out.platform, fp_out.confidence>> = PriorityVerdict
        /\ fp_out.platform \in NamedPlatforms => fp_out.confidence = "high"
        /\ fp_in.html_lower = {} => fp_out.platform = "inconclusive"

\* WooCommerce assets without shop evidence next to a Shopware bundle path and two
\* WordPress paths: the page is shopware
C29_UnconfirmedWooYieldsToShopware ==
    /\ prog = "fingerprint_platform_from_html" /\ pc = "done"
    /\ AnyMarker(WooMarkers) /\ fp_out.shop_presence_hint # "shop"
    /\ AnyShopwareMarker
    /\ fp_out.platform = "shopware"

(***************************************************************************)
(* Progress on the headless-browser limiter (SpecSlotFair).                *)
(***************************************************************************)
Left(t) == tpc[t] \in {"returned", "raised"}

\* C30 as stated: every caller waiting in playwright_slot eventually acquires a slot
\* and its call eventually returns.
C30_EveryWaiterReturns ==
    \A t \in Threads : (prog = "playwright_slot" /\ tpc[t] = "waiting") ~> Left(t)

\* C30, amended: a caller that holds a slot eventually leaves and releases it; a free
\* slot does not stay unused while a caller waits; and when the callers make only
\* finitely many calls, every waiting caller eventually acquires a slot and its
\* call returns.
C30_ProgressWithoutStarvationBound ==
    /\ \A t \in Threads : (prog = "playwright_slot" /\ InSlot(t)) ~> Left(t)
    /\ \A t \in Threads : (prog = "playwright_slot" /\ tpc[t] = "waiting" /\ sem > 0)
                             ~> (tpc[t] # "waiting" \/ sem = 0)
    /\ (<>[][\A u \in Threads : ~SlotCall(u)]_vars) => C30_EveryWaiterReturns

\* capacity one: one caller is in its session and the two others wait for the slot
C30_TwoWaitForOneSlot ==
    /\ prog = "playwright_slot" /\ max_concurrency_from_env(env) = 1 /\ sem = 0
    /\ Cardinality({t \in Threads : tpc[t] = "waiting"}) = 2
    /\ Cardinality({t \in Threads : tpc[t] = "session"}) = 1

====
